---- MODULE Spec2Model ----
(***************************************************************************)
(* Request-dispatch core of sigil: plugin pre-receipt hooks, request       *)
(* normalisation, global middleware, route dispatch (validation,           *)
(* modifiers, handler), response formatting, plugin pre-send hooks and the *)
(* per-variant write of the response.                                      *)
(***************************************************************************)
EXTENDS Integers, Sequences, FiniteSets, TLC

\* ------------------------------------------------------------------ bounds
MaxPlugins == 2
MaxMiddlewares == 2
MaxModifiers == 1
\* addPlugin calls made in one set-up
MaxRegistrations == 3
\* middleware handles issued in one set-up
MaxHandles == 3
\* schema drafts derived from one base route
MaxDrafts == 2
\* modifiers bound to one route when the chain itself is examined
MaxChain == 2
\* routes handed to Sigil.mount and children mounted on a route
MaxMounts == 1
\* connections a client holds open on the internal server
MaxConnections == 1
\* shutdown signals and uncaught errors delivered to the process
MaxSignals == 2
\* set / append / delete calls made on one header container
MaxHeaderCalls == 3
\* json / text / blob / urlSearchParams calls made on one body container
MaxBodyCalls == 4
\* requests in flight at the same time
MaxInFlight == 2
\* Route objects of one router tree, the root included, and the verbs
\* registered on them
MaxRouters == 3
MaxRequests == 2

\* ------------------------------------------------------- abstract values
\* "code" of a thrown value / options object that has no such property
NoCode == 0 - 1
\* a "code" property that is a non-numeric string such as "ENOENT"
StrCode == 0 - 2
\* absent header / absent (undefined) string property
Absent == "-"

HeaderKeys == {"content-type", "content-encoding", "location", "x-a"}
EmptyHeaders == [k \in HeaderKeys |-> Absent]
JsonType == [EmptyHeaders EXCEPT !["content-type"] = "application/json"]
OneHeader(k, v) == [EmptyHeaders EXCEPT ![k] = v]

\* Object.assign(target, source) / { ...target, ...source } on header
\* objects whose keys are lower-cased: the source wins on a key conflict.
AssignWrong(target, source) ==
  [k \in HeaderKeys |-> IF target[k] # Absent THEN target[k] ELSE source[k]]
Assign(target, source) ==
  [k \in HeaderKeys |-> IF source[k] # Absent THEN source[k] ELSE target[k]]

NoKeys(h) == \A k \in HeaderKeys : h[k] = Absent

\* payload classes: "str" a string, "obj" a JSON-serialisable object,
\* "buf" a Buffer, "cyc" a value JSON.stringify rejects (cycle, BigInt),
\* "nil" null or undefined.
Thrown == "throws"

\* jsonStringify(payload, { throw }) of src/utils/safe-json
jsonStringify(payload, throw) ==
  IF payload = "str" THEN "str"
  ELSE IF payload # "cyc" THEN "json"
  ELSE IF throw THEN Thrown
  ELSE "null"

\* classNameToReadable
classNameToReadable(name) ==
  CASE name = "TypeError" -> "Type error"
    [] name = "ValidationError" -> "Validation error"
    [] name = "NotFound" -> "Not found"
    [] OTHER -> name

\* A value a handler / middleware returns or throws, and an envelope.
Val(kind, content, code, headers, name, message) ==
  [kind |-> kind, content |-> content, code |-> code, headers |-> headers,
   name |-> name, message |-> message]

\* new Exception({ code, name, message })
Exception(code, name, message) ==
  Val("Exception", "nil",
      IF code >= 100 /\ code <= 599 THEN code ELSE 500,
      EmptyHeaders,
      IF name = Absent THEN "UnknownException" ELSE name,
      IF message # Absent /\ message # "" THEN message
      ELSE IF name # Absent /\ name # "" THEN classNameToReadable(name)
      ELSE "There was an unknown exception")

\* new Exception({ code, name, message, headers })
ExceptionWith(code, name, message, headers) ==
  [Exception(code, name, message) EXCEPT !.headers = headers]

NotFound == Exception(404, "NotFound",
                      "The requested resource could not be found on the server.")

\* Exception.fromError reads error.name: a TypeError for null / undefined
fromErrorThrows(error) == error.kind = "Null"

\* Exception.fromError(error); `code || 500` takes 500 for an absent code
fromError(error) ==
  IF error.kind = "Exception" THEN error
  ELSE Exception(IF error.code = NoCode THEN 500 ELSE error.code,
                 error.name, error.message)


\* spreading an IncomingHeaders instance ({ ...payload.headers }): the map
\* is a private field and `link` a prototype getter, so no own enumerable
\* property is copied.
spreadInstance(headers) == EmptyHeaders

Body(t, error, content) == [t |-> t, error |-> error, content |-> content]
EmptyBody == Body("empty", Absent, "nil")

\* defaultTemplate(payload): { content, code, headers } or a throw
defaultTemplate(payload) ==
  IF payload.kind = "Exception"
  THEN [content |-> Body("wrapped", payload.name, payload.message),
        code |-> IF payload.code = NoCode THEN 500 ELSE payload.code,
        headers |-> Assign(JsonType, spreadInstance(payload.headers)),
        thrown |-> FALSE]
  ELSE IF payload.kind = "Buffer"
  THEN [content |-> Body("raw", Absent, "buf"), code |-> 200,
        headers |-> EmptyHeaders, thrown |-> FALSE]
  ELSE [content |-> Body("wrapped", "null",
                         IF payload.content = "nil" THEN "self"
                         ELSE payload.content),
        code |-> IF payload.code = NoCode THEN 200 ELSE payload.code,
        headers |-> IF NoKeys(payload.headers) THEN JsonType
                    ELSE payload.headers,
        thrown |-> jsonStringify(payload.content, TRUE) = Thrown]

\* ------------------------------------------------------ response classes
NoVal == Val("None", "nil", NoCode, EmptyHeaders, Absent, Absent)

\* `throw new Error("Invalid response code: " + code)` and
\* `throw new Error("Invalid redirect code: " + code)`
ConstructionError(message) ==
  Val("ConstructionError", "nil", NoCode, EmptyHeaders, "Error", message)

\* new BasicResponse(content, code = 200, headers): the code is checked
\* against 100..599 after the default parameter has been applied
BasicResponse(kind, content, code, headers) ==
  LET c == IF code = NoCode THEN 200 ELSE code
  IN IF c < 100 \/ c > 599
     THEN ConstructionError("Invalid response code")
     ELSE Val(kind, content, c, headers, Absent, Absent)

\* new SigilResponse(content, code = 200, headers)
SigilResponse(content, code, headers) ==
  BasicResponse("Plain", content, code, headers)

\* new MiddlewareModificationRequest(options): super(null, options.code,
\* options.headers); the base constructor's default parameter turns an
\* undefined code into 200.
MiddlewareModificationRequest(opts) ==
  BasicResponse("Modification", "nil", opts.code, opts.headers)

\* new RawResponse(body, headers, code)
RawResponse(body, headers, code) ==
  BasicResponse("Raw", body, code,
      IF NoKeys(headers) /\ body \in {"obj", "cyc", "nil"} THEN JsonType
      ELSE headers)

\* new FileResponse(path, contentType): content is the path until resolved
FileResponse(contentType) ==
  BasicResponse("File", "path", 200,
      [OneHeader("content-type", contentType)
         EXCEPT !["content-encoding"] = "utf8"])

\* new Redirect(to, code): super(undefined, code ?? 302, { location }),
\* then `if (code)` the 300..399 check
Redirect(code) ==
  LET base == BasicResponse("Redirect", "nil",
                            IF code = NoCode THEN 302 ELSE code,
                            OneHeader("location", "/to"))
  IN IF base.kind = "ConstructionError" THEN base
     ELSE IF code # NoCode /\ code # 0 /\ (code < 300 \/ code > 399)
     THEN ConstructionError("Invalid redirect code")
     ELSE base

\* new StreamResponse(stream, code, headers)
StreamResponse(code, headers) ==
  LET base == BasicResponse("Stream", "nil", code, EmptyHeaders)
  IN IF base.kind = "ConstructionError" THEN base
     ELSE [base EXCEPT !.headers = Assign(base.headers, headers),
                       !.content = "readable"]

\* a thrown or returned Error that is not an Exception
ErrorVal(name, message, code) ==
  Val("Error", "nil", code, EmptyHeaders, name, message)

\* isReadable(response.content) || response instanceof StreamResponse
isStream(response) ==
  response.kind = "Stream" \/ response.content = "readable"

\* ------------------------------------------------- inputs of the model
\* what a route handler may return
HandlerReturns ==
  { Val("Value", "obj", NoCode, EmptyHeaders, Absent, Absent),
    Val("Value", "cyc", NoCode, EmptyHeaders, Absent, Absent),
    Val("Value", "readable", NoCode, EmptyHeaders, Absent, Absent),
    SigilResponse("obj", 201, OneHeader("x-a", "env")),
    RawResponse("obj", EmptyHeaders, NoCode),
    RawResponse("cyc", EmptyHeaders, NoCode),
    RawResponse("str", OneHeader("content-type", "text/plain"), 404),
    FileResponse("text/css"),
    Redirect(NoCode),
    StreamResponse(200, EmptyHeaders),
    NotFound,
    Exception(500, "InternalServerError", "Internal server error"),
    ErrorVal("TypeError", "boom", NoCode),
    MiddlewareModificationRequest([headers |-> OneHeader("x-a", "env"),
                                   code |-> NoCode]) }

\* plain values and envelopes a handler may return for the response
\* template to render
TemplateReturns ==
  { Val("Value", c, NoCode, EmptyHeaders, Absent, Absent) :
      c \in {"obj", "str", "nil", "buf"} } \cup
  { SigilResponse("obj", 201, OneHeader("x-a", "env")),
    SigilResponse("str", 202, EmptyHeaders),
    SigilResponse("nil", 203, EmptyHeaders),
    ExceptionWith(429, "TooManyRequests", "slow down",
                  OneHeader("x-a", "retry")),
    Exception(NoCode, "Teapot", Absent) }

\* what a validator, a modifier or a handler may throw
ThrownValues ==
  { Val("Null", "nil", NoCode, EmptyHeaders, Absent, Absent),
    ErrorVal(Absent, Absent, NoCode),
    ErrorVal("TypeError", "boom", NoCode),
    ErrorVal("TypeError", "", StrCode),
    ErrorVal("TypeError", "boom", 42),
    ErrorVal("TypeError", "boom", 409),
    Exception(403, "Forbidden", "Forbidden") }

\* what a global middleware may return to end the pipeline
MiddlewareReturns ==
  { Val("Value", "obj", NoCode, EmptyHeaders, Absent, Absent),
    RawResponse("cyc", EmptyHeaders, NoCode),
    Exception(401, "Unauthorized", "Unauthorized") }

\* options of the modification requests a global middleware may return
ModificationOptions ==
  { [headers |-> OneHeader("content-type", "text/mw"), code |-> NoCode],
    [headers |-> [OneHeader("x-a", "mw")
                    EXCEPT !["content-type"] = "text/late"],
     code |-> 202] }

\* responses a plugin's onBeforeResponseSent may return
PluginOverrides ==
  { [code |-> 503, headers |-> OneHeader("x-a", "plugin"), content |-> "str"],
    [code |-> 203, headers |-> EmptyHeaders, content |-> "cyc"] }

\* configurations the framework may be constructed with
OptionSets ==
  { [codeOnly |-> {}, skip |-> FALSE, messages |-> FALSE],
    [codeOnly |-> {201, 404}, skip |-> FALSE, messages |-> TRUE],
    [codeOnly |-> {}, skip |-> TRUE, messages |-> FALSE] }

Slots == {"body", "headers", "query", "params"}
\* the schema slots a route draft may carry, in insertion order
SchemaChains == { <<>>, <<"body">>, <<"query", "body">> }

\* the limits formidable enforces in formDataHandler
MultipartLimits == {"maxTotalFileSize", "maxFileSize", "maxFiles",
                    "maxFieldsSize", "maxFields", "allowEmptyFiles"}

Paths == {"/items", "/missing"}
\* paths verbs are registered at, and the schema slots drafts attach
RoutePaths == {"/items", "/other"}
DraftSlots == {"body", "query"}

\* the classes of the response model and the `code` arguments tried on
\* their constructors (NoCode: the argument is omitted)
Variants == {"Plain", "Raw", "File", "Redirect", "Stream", "Exception",
             "Modification"}
CodeArgs == {NoCode, 0, 99, 100, 200, 299, 300, 399, 400, 599, 600}


\* ------------------------------------------------ request containers
\* header names as user code writes them, and String.toLowerCase on them
HeaderNames == {"cookie", "Cookie", "accept"}
toLowerCase(name) == IF name = "Cookie" THEN "cookie" ELSE name
StoredNames == { toLowerCase(name) : name \in HeaderNames }

\* a header value, given by the pairs line.split(";") and split("=") find
\* in it: "a=1", "a=2; b=3", "b=4" and "=5"
CookieNames == {"a", "b"}
Pair(k, v) == [key |-> k, val |-> v]
CookieLines == { <<Pair("a", "1")>>, <<Pair("a", "2"), Pair("b", "3")>>,
                 <<Pair("b", "4")>>, <<Pair("", "5")>> }

\* new IncomingHeaders(): no header is stored (no array under any key) and
\* no cookie is known
IncomingHeaders ==
  [map |-> [key \in StoredNames |-> <<>>],
   cookies |-> [c \in CookieNames |-> Absent],
   calls |-> 0]

\* #parseCookie(line): every pair with a name is written into #cookies
RECURSIVE parseCookie(_, _)
parseCookie(cookies, line) ==
  IF line = <<>> THEN cookies
  ELSE LET pair == Head(line)
       IN parseCookie(IF pair.key = "" THEN cookies
                      ELSE [cookies EXCEPT ![pair.key] = pair.val],
                      Tail(line))


\* the bytes of a request body: '{"a":1}', 'null' and '{"a":'
Buffers == {"object", "null", "cut"}
MimeTypes == {"text/plain", "application/json"}
\* the value of a private field that was never assigned
Undefined == [kind |-> "undefined"]
Null == [kind |-> "null"]
\* what JSON.parse throws, and what jsonParse throws in its place
SyntaxError == [kind |-> "SyntaxError"]
DeserializeError == [kind |-> "Error"]
Views == {"json", "text", "blob", "query"}

\* buffer.toString("utf8")
toString(buffer) == [utf8 |-> buffer]
\* JSON.parse(text): a new object (the n-th one parsed), null, or a
\* SyntaxError
JSONparse(text, n) ==
  CASE text.utf8 = "object" -> [kind |-> "object", ref |-> n]
    [] text.utf8 = "null" -> Null
    [] OTHER -> SyntaxError
\* jsonParse(payload, throwExceptions) of src/utils/safe-json
jsonParse(payload, throwExceptions, n) ==
  LET parsed == JSONparse(payload, n)
  IN IF parsed # SyntaxError THEN parsed
     ELSE IF throwExceptions THEN DeserializeError ELSE Null

\* no body container yet
NoBody ==
  [buffer |-> Absent, json |-> Undefined, text |-> Undefined,
   blob |-> Undefined, query |-> Undefined,
   computed |-> [v \in Views |-> 0], returned |-> <<>>]
\* new IncomingBody(buffer)
IncomingBody(buffer) == [NoBody EXCEPT !.buffer = buffer]
\* a view handed to the caller
Returned(view, value) == [view |-> view, value |-> value]

\* ---------------------------------------------------- processRequestContent
Methods == {"GET", "HEAD", "POST", "DELETE"}
SUPPORTED_METHODS == {"POST", "PATCH", "PUT", "DELETE", "OPTIONS"}

\* a Content-Type header: the header as sent, what split(";", 1)[0].trim()
\* leaves of it, and what startsWith("text/") and endsWith("json") answer
\* on that
ContentType(header, type, text, jsonEnd) ==
  [header |-> header, type |-> type, startsWithText |-> text,
   endsWithJson |-> jsonEnd]
NoContentType == ContentType(Absent, Absent, FALSE, FALSE)
ContentTypes ==
  { NoContentType,
    ContentType("text/plain", "text/plain", TRUE, FALSE),
    ContentType("application/json; charset=utf-8", "application/json",
                FALSE, TRUE),
    ContentType("application/ld+json", "application/ld+json", FALSE, TRUE),
    ContentType("application/xml", "application/xml", FALSE, FALSE),
    ContentType("multipart/form-data; boundary=x", "multipart/form-data",
                FALSE, FALSE),
    ContentType("application/x-www-form-urlencoded",
                "application/x-www-form-urlencoded", FALSE, FALSE),
    ContentType("application/octet-stream", "application/octet-stream",
                FALSE, FALSE),
    ContentType("; charset=utf-8", "", FALSE, FALSE) }

\* how reading the request stream ends: 'end' or 'error'
ReadEnds == {"end", "error"}

\* the proxy headers of a message: Forwarded is given by its for= values
\* and its host= value, X-Forwarded-For by its comma-separated entries
ProxyHeaders(for, host, xfh, xff, xri, cf) ==
  [forwarded |-> [for |-> for, host |-> host], xfh |-> xfh, xff |-> xff,
   xri |-> xri, cf |-> cf]
NoProxyHeaders ==
  ProxyHeaders(<<>>, Absent, Absent, <<>>, Absent, Absent)
ProxyHeaderSets ==
  { NoProxyHeaders,
    ProxyHeaders(<<"1.1.1.1">>, "evil.test", Absent, <<>>, Absent, Absent),
    ProxyHeaders(<<>>, Absent, "forged.test", <<>>, Absent, Absent),
    ProxyHeaders(<<>>, Absent, Absent, <<"2.2.2.2", "3.3.3.3">>, Absent,
                 Absent),
    ProxyHeaders(<<>>, Absent, Absent, <<>>, "4.4.4.4", Absent),
    ProxyHeaders(<<>>, Absent, Absent, <<>>, Absent, "5.5.5.5") }
\* a Forwarded header was sent
hasForwarded(h) == h.forwarded.for # <<>> \/ h.forwarded.host # Absent

Hosts == {Absent, "api.test"}
RemoteAddresses == {Absent, "::ffff:10.0.0.1", "10.0.0.2"}
\* remote.startsWith("::ffff:") ? remote.slice(7) : remote
unmapped(remote) == IF remote = "::ffff:10.0.0.1" THEN "10.0.0.1" ELSE remote

\* no message at hand
NoMessage ==
  [method |-> Absent, contentType |-> NoContentType, read |-> "end",
   host |-> Absent, proxy |-> NoProxyHeaders, remoteAddress |-> Absent,
   trustProxy |-> FALSE]
Messages ==
  [method : Methods, contentType : ContentTypes, read : ReadEnds,
   host : Hosts, proxy : ProxyHeaderSets, remoteAddress : RemoteAddresses,
   trustProxy : BOOLEAN]

\* deriveHost(req, trustProxy)
deriveHost(req, trustProxy) ==
  IF trustProxy /\ req.proxy.forwarded.host # Absent
    THEN req.proxy.forwarded.host
  ELSE IF trustProxy /\ req.proxy.xfh # Absent THEN req.proxy.xfh
  ELSE req.host

\* getClientIpInfo(req)
getClientIpInfo(req) ==
  LET h == req.proxy
      none == <<>>
      fwd == IF hasForwarded(h) THEN h.forwarded.for ELSE none
      xff == IF fwd # none THEN fwd ELSE h.xff
      xri == IF xff # none THEN xff
             ELSE IF h.xri # Absent THEN <<h.xri>> ELSE none
      cf == IF xri # none THEN xri
            ELSE IF h.cf # Absent THEN <<h.cf>> ELSE none
      ips == IF req.remoteAddress # Absent
             THEN Append(cf, unmapped(req.remoteAddress))
             ELSE cf
  IN [ip |-> IF ips # <<>> THEN ips[1] ELSE Absent, ips |-> ips]

\* new IncomingFile({ key, mimeType, originalName, ... })
IncomingFile(key, mimeType, originalName) ==
  [key |-> key, mimeType |-> mimeType, originalName |-> originalName]
\* what a content handler returns; "empty" is new IncomingBody(null)
HandlerResponse(strategy, body, files) ==
  [strategy |-> strategy, body |-> body, files |-> files]
bufferHandler(req) ==
  IF req.read = "error" THEN HandlerResponse("bufferHandler", "empty", <<>>)
  ELSE HandlerResponse("bufferHandler", "buffer", <<>>)
urlencodedFormHandler(req) ==
  IF req.read = "error"
  THEN HandlerResponse("urlencodedFormHandler", "empty", <<>>)
  ELSE HandlerResponse("urlencodedFormHandler", "buffer", <<>>)
\* formidable's parse of a form with one field and one uploaded file; a
\* failing read rejects the parse
formDataHandler(req) ==
  IF req.read = "error" THEN HandlerResponse("formDataHandler", Thrown, <<>>)
  ELSE HandlerResponse("formDataHandler", "fields",
                       <<IncomingFile("upload", "image/png", "a.png")>>)
binaryHandler(req) ==
  IF req.read = "error" THEN HandlerResponse("binaryHandler", "empty", <<>>)
  ELSE HandlerResponse("binaryHandler", "empty",
                       <<IncomingFile("", req.contentType.header, "")>>)

\* nothing processed yet, and processRequestContent returning null
NotProcessed == [strategy |-> "pending"]
NullRequest == [strategy |-> "null"]

\* processRequestContent(req, { trustProxy })
contentOf(req) ==
  LET host == deriveHost(req, req.trustProxy)
      needBody == req.method \in SUPPORTED_METHODS
      type == IF needBody THEN req.contentType.type ELSE Absent
      basic == [host |-> host, remoteAddress |-> getClientIpInfo(req)]
      with(r) == [strategy |-> r.strategy, host |-> basic.host,
                  remoteAddress |-> basic.remoteAddress,
                  body |-> r.body, files |-> r.files]
  IN IF host = Absent THEN NullRequest
     ELSE IF ~needBody \/ type \in {Absent, ""}
       THEN with(HandlerResponse("none", "empty", <<>>))
     ELSE IF req.contentType.startsWithText \/ req.contentType.endsWithJson
       THEN with(bufferHandler(req))
     ELSE IF type \in {"application/json", "application/xml",
                       "application/javascript"}
       THEN with(bufferHandler(req))
     ELSE IF type = "multipart/form-data" THEN with(formDataHandler(req))
     ELSE IF type = "application/x-www-form-urlencoded"
       THEN with(urlencodedFormHandler(req))
     ELSE with(binaryHandler(req))

\* -------------------------------------------------------------- router tree
\* sub-paths routers are mounted at and patterns verbs are registered at
Prefixes == {"/a", "/b"}
Patterns == {"/x", "/y"}
\* new Route(): $registeredRequests is empty and no key of $mounted is set
RouteCore == [registered |-> {}, mounted |-> [prefix \in Prefixes |-> 0]]
\* a request descriptor; `key` is the requestKey it is stored under
RequestDescriptor(key, path) == [key |-> key, path |-> path]
\* RouteCore.exportRequests of router r: its own descriptors and those of
\* the routers in $mounted, each path behind the key it is mounted under
RECURSIVE exportRequests(_, _)
exportRequests(rs, r) ==
  rs[r].registered \cup
  UNION { { RequestDescriptor(request.key, prefix \o request.path) :
              request \in exportRequests(rs, rs[r].mounted[prefix]) } :
          prefix \in { q \in Prefixes : rs[r].mounted[q] # 0 } }

\* ------------------------------------------------------------------ state
VARIABLES
  options,          \* SigilCore.$options (with the routes' debug options)
  plugins,          \* SigilCore.$plugins, in registration order
  middlewares,      \* SigilCore.$middlewares, in insertion order
  route,            \* the route registered on the root router
  pc,               \* position of the request in $incomingMessageHandlerImpl
  idx,              \* index of the running for-of loop
  target,           \* path of the request
  modifiedOptions,  \* overrides accumulated by the middleware phase
  modification,     \* the `modification` argument of $sendResponse
  rawResponse,      \* what the dispatch returned
  response,         \* the envelope handed to $sendResponse
  envelopeCode,     \* response.code on entry of $sendResponse
  heads,            \* res.writeHead calls: <<[code, headers]>>
  wire,             \* responses ended on the transport
  logs,             \* logger records
  calls,            \* hooks, middleware, validators, modifiers, handlers run
  failure,          \* what left the pipeline as a rejected promise
  threw,            \* a hook, middleware, handler or template threw
  registrations,    \* the addPlugin calls made so far and how each ended
  removed,          \* ids of the middleware removed through their handle
  drafts,           \* the Route objects: a base route and its schema drafts
  table,            \* the verbs registered through $request
  built,            \* the last response object constructed by user code
  nextRequest,      \* `nextRequest` of $injectModifier: what the handler gets
  injections,       \* the onRequest calls of the modifiers, in order
  piped,            \* the source stream piped into the response
  core,             \* SigilCore: $server, $initialized, #pluginsInitialized
  hooks,            \* life-cycle hooks of the plugins called so far
  shutdown,         \* closure state of setupGracefulShutdown
  jar,              \* an IncomingHeaders container: #map and #cookies
  incomingBody,     \* an IncomingBody container: #buffer and its views
  incoming,         \* an IncomingMessage and the options it is processed with
  processed,        \* what processRequestContent made of it
  lanes,            \* requests in flight, tree, snapshot side by side, each at an await
  shared,           \* an envelope a handler keeps and returns every time
  routers,          \* the Route objects of a router tree, snapshot, the root first
  mounts,           \* the mount calls made on them so far
  snapshot          \* $middlewares as the middleware loop of the request found it

vars == <<options, plugins, middlewares, route, pc, idx, target,
          modifiedOptions, modification, rawResponse, response, envelopeCode,
          heads, wire, logs, calls, failure, threw,
          registrations, removed, drafts, table, built,
          nextRequest, injections, piped, core, hooks, shutdown,
          jar, incomingBody, incoming, processed, lanes, shared,
          routers, mounts, snapshot>>

\* what only set-up calls and constructor calls of user code change
construction == <<registrations, removed, drafts, table, built>>

registry == <<options, plugins, middlewares, route>>

\* the request containers user code holds
containers == <<jar, incomingBody, incoming, processed>>

\* a tree of routers and how it was put together
tree == <<routers, mounts>>

\* requests in flight side by side and the objects they share
flight == <<lanes, shared>>

\* the framework instance and the process around it
lifecycle == <<core, hooks, shutdown>>
\* the locals of $injectModifier
injection == <<nextRequest, injections>>

NoRoute == [registered |-> FALSE, schemas |-> <<>>, modifiers |-> 0]
NoModification == [headers |-> EmptyHeaders, code |-> NoCode]
\* an entry of `calls`: what ran, for which registry entry or slot, how it
\* came back and the value it came back with
Call(ev, n, out, val) == [ev |-> ev, n |-> n, out |-> out, val |-> val]
\* the options object a modification request was constructed from
Options(opts) == Val("Options", "nil", opts.code, opts.headers, Absent, Absent)

\* nothing constructed yet
NoBuilt == [variant |-> "none", code |-> NoCode, value |-> NoVal]

\* the properties of a client request the modifiers of the model set
RequestKeys == {"user", "role", "seen"}
\* a property that is not set; a property set by the modifier bound at
\* place n holds n
Unset == 0
\* the request the framework has processed: none of them is set
ClientRequest == [k \in RequestKeys |-> Unset]
\* { ...nextRequest, ...payload }: a key of the payload wins
Spread(base, payload) ==
  [k \in RequestKeys |-> IF payload[k] # Unset THEN payload[k] ELSE base[k]]

\* onRequest(request) of the modifier bound at place n: it names itself
\* as the user, the first one also sets the role, and each reports the
\* user it found on the request it was given
onRequest(n, received) ==
  [k \in RequestKeys |->
     CASE k = "user" -> n
       [] k = "role" -> IF n = 1 THEN n ELSE Unset
       [] k = "seen" -> received["user"]]

\* no stream is piped
NoPipe == [source |-> "none", flushed |-> FALSE]

\* a life-cycle hook called on the plugin registered under name n
Hook(hook, n) == [hook |-> hook, n |-> n]

\* SigilCore constructor: the server is created unless serverless; in
\* serverless mode $initialized is set and $updateCallback runs at once,
\* with no plugin registered yet
constructor(serverless) ==
  [serverless |-> serverless,
   server |-> IF serverless THEN "absent" ELSE "created",
   initialized |-> serverless,
   pluginsInitialized |-> serverless,
   routes |-> 0, mounted |-> 0, connections |-> 0]

\* setupGracefulShutdown: `let isShuttingDown = false`, nothing scheduled
NoShutdown ==
  [isShuttingDown |-> FALSE, phase |-> "running", signals |-> 0, runs |-> 0,
   code |-> NoCode, next |-> 0, pending |-> FALSE, atSignal |-> <<>>]

Lanes == 1..MaxInFlight
\* `const pong = new RawResponse("pong")` kept by user code, and a handler
\* that returns either it or a response made for the call
Pong == RawResponse("str", EmptyHeaders, 200)
\* a request that has not arrived
NoLane ==
  [pc |-> "idle", modifiedOptions |-> NoModification, response |-> "none",
   own |-> Pong, written |-> <<>>]

\* the state after `new Sigil(options)`, for the given serverless settings
Constructed(modes) ==
  /\ options \in OptionSets
  /\ core \in { constructor(serverless) : serverless \in modes }
  /\ hooks = <<>>
  /\ shutdown = NoShutdown
  /\ nextRequest = ClientRequest
  /\ injections = <<>>
  /\ piped = NoPipe
  /\ plugins = <<>>
  /\ middlewares = <<>>
  /\ route = NoRoute
  /\ pc = "idle"
  /\ idx = 0
  /\ target = "/"
  /\ modifiedOptions = NoModification
  /\ modification = NoModification
  /\ rawResponse = NoVal
  /\ response = NoVal
  /\ envelopeCode = NoCode
  /\ heads = <<>>
  /\ wire = <<>>
  /\ logs = <<>>
  /\ calls = <<>>
  /\ failure = "none"
  /\ threw = FALSE
  /\ registrations = <<>>
  /\ removed = {}
  /\ drafts = <<>>
  /\ table = <<>>
  /\ built = NoBuilt
  /\ jar = IncomingHeaders
  /\ incomingBody = NoBody
  /\ processed = NotProcessed
  /\ lanes = [r \in Lanes |-> NoLane]
  /\ shared = Pong
  /\ routers = <<RouteCore>>
  /\ mounts = <<>>
  /\ snapshot = <<>>

\* a serverless instance: requests are handed to the exported handler
Init == Constructed({TRUE}) /\ incoming = NoMessage
\* an instance of either kind
InitModes == Constructed(BOOLEAN) /\ incoming = NoMessage
\* a serverless instance and a message about to be processed
InitMessages == Constructed({TRUE}) /\ incoming \in Messages

\* ------------------------------------------------------------- set-up
request == <<pc, idx, target, modifiedOptions, modification, rawResponse,
             response, envelopeCode, heads, wire, logs, calls, failure, threw,
             nextRequest, injections, piped>>

\* a logger record
Log(level, module, code) == [level |-> level, module |-> module, code |-> code]

\* Sigil.addPlugin(plugin) for the plugin class called `name`, whose
\* constructor succeeds or throws: a registered name throws out of the
\* call, a failing constructor is caught and logged, otherwise the
\* instance is stored under its name
addPluginOf(name, constructs) ==
  LET registered == \E j \in 1..Len(plugins) : plugins[j] = name
      outcome == IF registered THEN Thrown
                 ELSE IF constructs THEN "registered" ELSE "logged"
  IN /\ registrations' = Append(registrations,
            [name |-> name, constructs |-> constructs,
             registered |-> registered, before |-> plugins,
             outcome |-> outcome])
     /\ plugins' = IF outcome = "registered" THEN Append(plugins, name)
                   ELSE plugins
     /\ logs' = IF outcome = "logged"
                THEN Append(logs, Log("error", "registry", NoCode))
                ELSE logs
     /\ UNCHANGED <<options, middlewares, route, pc, idx, target,
                    modifiedOptions, modification, rawResponse, response,
                    envelopeCode, heads, wire, calls, failure, threw,
                    removed, drafts, table, built, containers, flight, tree, snapshot,
                    nextRequest, injections, piped, lifecycle>>

\* SigilCore.$updateCallback() on instance c with the plugins ps: nothing
\* before $initialized; onInitialize on every plugin the first time only,
\* then onUpdateCallback on every plugin
updateCallback(c, ps) ==
  IF ~c.initialized THEN [core |-> c, called |-> <<>>]
  ELSE [core |-> [c EXCEPT !.pluginsInitialized = TRUE],
        called |->
          (IF c.pluginsInitialized THEN <<>>
           ELSE [j \in 1..Len(ps) |-> Hook("onInitialize", ps[j])]) \o
          [j \in 1..Len(ps) |-> Hook("onUpdateCallback", ps[j])]]

\* Sigil.listen(port, host): $initialized is set, $updateCallback runs and
\* the server starts; its "listening" event calls onInternalServerStarted
listen ==
  /\ pc = "idle"
  /\ core.server = "created"
  /\ shutdown.phase = "running"
  /\ LET u == updateCallback([core EXCEPT !.initialized = TRUE], plugins)
     IN /\ core' = [u.core EXCEPT !.server = "listening"]
        /\ hooks' = hooks \o u.called \o
             [j \in 1..Len(plugins) |->
                Hook("onInternalServerStarted", plugins[j])]
  /\ UNCHANGED <<registry, request, construction, containers, flight, tree, snapshot, shutdown>>

\* a client opens a connection to the listening server and has a request
\* in progress on it; server.close() stops new connections
connect ==
  /\ core.server = "listening"
  /\ shutdown.phase = "running"
  /\ core.connections < MaxConnections
  /\ core' = [core EXCEPT !.connections = @ + 1]
  /\ UNCHANGED <<registry, request, construction, containers, flight, tree, snapshot, hooks, shutdown>>

\* the response on a connection ends and the connection goes away
disconnect ==
  /\ core.connections > 0
  /\ shutdown.phase # "exited"
  /\ core' = [core EXCEPT !.connections = @ - 1]
  /\ UNCHANGED <<registry, request, construction, containers, flight, tree, snapshot, hooks, shutdown>>

\* exitWithCode(code): process.exit(code) is scheduled
exitWithCode(s, code) == [s EXCEPT !.phase = "exiting", !.code = code]

\* runCleanup(code) up to its first await: nothing when already shutting
\* down; otherwise server.close is called when there is a server, and the
\* cleanup starts at once when there is none
runCleanup(s, code) ==
  IF s.isShuttingDown THEN s
  ELSE [s EXCEPT !.isShuttingDown = TRUE,
                 !.runs = @ + 1,
                 !.code = code,
                 !.atSignal = plugins,
                 !.next = 1,
                 !.phase = IF core.server = "absent" THEN "cleanup"
                           ELSE "closing"]

\* SIGINT, SIGTERM, SIGQUIT, SIGHUP, SIGUSR2 (runCleanup(0)), or an
\* uncaught exception / unhandled rejection (runCleanup(1))
signal ==
  /\ shutdown.phase # "exited"
  /\ shutdown.signals < MaxSignals
  /\ \E code \in {0, 1} :
       shutdown' = [runCleanup(shutdown, code) EXCEPT !.signals = @ + 1]
  /\ UNCHANGED <<registry, request, construction, containers, flight, tree, snapshot, core, hooks>>

\* the callback of server.close: called without error once a listening
\* server has no connection left, and with ERR_SERVER_NOT_RUNNING for a
\* server that is not listening, which rejects into the catch block
closed ==
  /\ shutdown.phase = "closing"
  /\ IF core.server = "listening"
     THEN /\ core.connections = 0
          /\ core' = [core EXCEPT !.server = "closed"]
          /\ shutdown' = [shutdown EXCEPT !.phase = "cleanup"]
     ELSE /\ shutdown' = exitWithCode(shutdown, 1)
          /\ UNCHANGED core
  /\ UNCHANGED <<registry, request, construction, containers, flight, tree, snapshot, hooks>>

\* one turn of `for (plugin of $plugins.values()) await plugin.onBeforeExit()`:
\* the hook resolves, never settles, or rejects
beforeExit ==
  /\ shutdown.phase = "cleanup"
  /\ ~shutdown.pending
  /\ shutdown.next <= Len(plugins)
  /\ hooks' = Append(hooks, Hook("onBeforeExit", plugins[shutdown.next]))
  /\ \E outcome \in {"resolved", "pending", Thrown} :
       shutdown' =
         CASE outcome = "resolved" -> [shutdown EXCEPT !.next = @ + 1]
           [] outcome = "pending" -> [shutdown EXCEPT !.pending = TRUE]
           [] outcome = Thrown -> exitWithCode(shutdown, 1)
  /\ UNCHANGED <<registry, request, construction, containers, flight, tree, snapshot, core>>

\* the cleanup has gone through every plugin: exitWithCode(code)
cleaned ==
  /\ shutdown.phase = "cleanup"
  /\ ~shutdown.pending
  /\ shutdown.next > Len(plugins)
  /\ shutdown' = exitWithCode(shutdown, shutdown.code)
  /\ UNCHANGED <<registry, request, construction, containers, flight, tree, snapshot, core, hooks>>

\* the timer raced against the cleanup fires after timeoutMs
cleanupTimeout ==
  /\ shutdown.phase = "cleanup"
  /\ shutdown' = exitWithCode(shutdown, 1)
  /\ UNCHANGED <<registry, request, construction, containers, flight, tree, snapshot, core, hooks>>

\* the timer of exitWithCode fires: process.exit(code)
exit ==
  /\ shutdown.phase = "exiting"
  /\ shutdown' = [shutdown EXCEPT !.phase = "exited"]
  /\ UNCHANGED <<registry, request, construction, containers, flight, tree, snapshot, core, hooks>>

\* addPlugin of the next plugin class, whose constructor succeeds
addPlugin ==
  /\ pc = "idle"
  /\ Len(plugins) < MaxPlugins
  /\ addPluginOf(Len(plugins) + 1, TRUE)

\* addPlugin of any plugin class, registered or not, constructible or not
addAnyPlugin ==
  /\ pc = "idle"
  /\ Len(registrations) < MaxRegistrations
  /\ \E name \in 1..MaxPlugins, constructs \in BOOLEAN :
       addPluginOf(name, constructs)

\* SigilPluginSystem.addMiddleware(callback): the callback is stored under
\* a fresh id (crypto.randomUUID) at the end of the Map
addMiddleware ==
  /\ pc = "idle"
  /\ Len(middlewares) < MaxMiddlewares
  /\ Len(middlewares) + Cardinality(removed) < MaxHandles
  /\ middlewares' = Append(middlewares,
                           Len(middlewares) + Cardinality(removed) + 1)
  /\ UNCHANGED <<options, plugins, route, request, construction, containers, flight, tree, snapshot, lifecycle>>

\* this.$middlewares.delete(id)
deleteEntryKept(entries, id) == entries
deleteEntry(entries, id) == SelectSeq(entries, LAMBDA e : e # id)

\* SigilMiddleware.removeMiddleware() on the handle of middleware `id`
removeMiddleware ==
  /\ pc = "idle"
  /\ \E j \in 1..Len(middlewares) :
       /\ middlewares' = deleteEntry(middlewares, middlewares[j])
       /\ removed' = removed \cup {middlewares[j]}
  /\ UNCHANGED <<options, plugins, route, request, registrations, drafts,
                 table, built, containers, flight, tree, snapshot, lifecycle>>

\* new Route(options): the base route, with no schema
BaseRoute == [schemas |-> <<>>, parent |-> 0, lineage |-> <<>>]

\* Sigil.route(path, options): the route is mounted on $root, which has no
\* update callback, added to $routes and connected
newRoute ==
  /\ pc = "idle"
  /\ drafts = <<>>
  /\ drafts' = <<BaseRoute>>
  /\ core' = [core EXCEPT !.routes = @ + 1]
  /\ UNCHANGED <<registry, request, registrations, removed, table, built, containers, flight, tree, snapshot,
                 hooks, shutdown>>

\* Sigil.mount(path, route) of a route built by user code: as Sigil.route
mountRoute ==
  /\ pc = "idle"
  /\ core.routes - Len(SelectSeq(drafts, LAMBDA r : r.parent = 0)) < MaxMounts
  /\ core' = [core EXCEPT !.routes = @ + 1]
  /\ UNCHANGED <<registry, request, construction, containers, flight, tree, snapshot, hooks, shutdown>>

\* RouteCore.mount(path, child) on the route Sigil.route returned: the child
\* is connected and the route's update callback is called
mountChild ==
  /\ pc = "idle"
  /\ drafts # <<>>
  /\ core.mounted < MaxMounts
  /\ LET u == updateCallback([core EXCEPT !.mounted = @ + 1], plugins)
     IN /\ core' = u.core
        /\ hooks' = hooks \o u.called
  /\ UNCHANGED <<registry, request, construction, containers, flight, tree, snapshot, shutdown>>

\* { ...schemas, [key]: schema }: a key already present keeps its place
Put(schemas, key, schema) ==
  IF \E j \in 1..Len(schemas) : schemas[j].key = key
  THEN [j \in 1..Len(schemas) |->
          IF schemas[j].key = key THEN [key |-> key, schema |-> schema]
          ELSE schemas[j]]
  ELSE Append(schemas, [key |-> key, schema |-> schema])

\* Route.$cloneWithSchema(key, schema) called on object i: a new object
\* with a schema map of its own
cloneWithSchemaShared(objects, i, key, schema) ==
  LET next == Put(objects[i].schemas, key, schema)
  IN Append([objects EXCEPT ![i].schemas = next],
            [schemas |-> next,
             parent |-> IF objects[i].parent = 0 THEN i
                        ELSE objects[i].parent,
             lineage |-> Append(objects[i].lineage,
                                [key |-> key, schema |-> schema])])
cloneWithSchema(objects, i, key, schema) ==
  Append(objects,
         [schemas |-> Put(objects[i].schemas, key, schema),
          parent |-> IF objects[i].parent = 0 THEN i
                     ELSE objects[i].parent,
          lineage |-> Append(objects[i].lineage,
                             [key |-> key, schema |-> schema])])

\* route.body(s) / .headers(s) / .query(s) / .params(s) on any Route object;
\* the schema is named after the draft it is attached on
derive ==
  /\ pc = "idle"
  /\ drafts # <<>>
  /\ Len(drafts) <= MaxDrafts
  /\ \E i \in 1..Len(drafts), key \in DraftSlots :
       drafts' = cloneWithSchema(drafts, i, key, Len(drafts) + 1)
  /\ UNCHANGED <<registry, request, registrations, removed, table, built, containers, flight, tree, snapshot,
                 lifecycle>>

\* a verb registration (RouteRequests.$request) on Route object i: the
\* schema entries of that object are captured and the closure is
\* registered on the pathfinder of the initial parent
requestOn ==
  /\ pc = "idle"
  /\ \E i \in 1..Len(drafts), path \in RoutePaths :
       /\ \A j \in 1..Len(table) : table[j].path # path
       /\ table' = Append(table,
            [draft |-> i, path |-> path,
             ref |-> IF drafts[i].parent = 0 THEN i ELSE drafts[i].parent,
             entries |-> drafts[i].schemas])
       /\ route' = IF path = "/items"
                   THEN [registered |-> TRUE,
                         schemas |-> [j \in 1..Len(drafts[i].schemas) |->
                                        drafts[i].schemas[j].key],
                         modifiers |-> 0]
                   ELSE route
  /\ LET u == updateCallback(core, plugins)
     IN /\ core' = u.core
        /\ hooks' = hooks \o u.called
  /\ UNCHANGED <<options, plugins, middlewares, request, registrations,
                 removed, drafts, built, containers, flight, tree, snapshot, shutdown>>

\* `new <Variant>(..., code, ...)` in user code
Construct(variant, code) ==
  CASE variant = "Plain" -> SigilResponse("obj", code, EmptyHeaders)
    [] variant = "Raw" -> RawResponse("str", EmptyHeaders, code)
    [] variant = "File" -> FileResponse("text/css")
    [] variant = "Redirect" -> Redirect(code)
    [] variant = "Stream" -> StreamResponse(code, EmptyHeaders)
    [] variant = "Exception" -> Exception(code, "Teapot", "short and stout")
    [] variant = "Modification" ->
         MiddlewareModificationRequest([headers |-> EmptyHeaders,
                                        code |-> code])

construct ==
  /\ \E variant \in Variants, code \in CodeArgs :
       built' = [variant |-> variant, code |-> code,
                 value |-> Construct(variant, code)]
  /\ UNCHANGED <<registry, request, registrations, removed, drafts, table,
                 lifecycle, containers, flight, tree, snapshot>>

\* Sigil.route(path, { modifiers }) followed by a verb registration on a
\* draft carrying the schema chain
registerRouteOf(chain, m) ==
  /\ pc = "idle"
  /\ ~route.registered
  /\ route' = [registered |-> TRUE, schemas |-> chain, modifiers |-> m]
  /\ UNCHANGED <<options, plugins, middlewares, request, construction, containers, flight, tree, snapshot,
                 lifecycle>>

registerRoute ==
  \E chain \in SchemaChains, m \in 0..MaxModifiers :
    registerRouteOf(chain, m)

\* a route without schemas carrying a chain of modifiers
registerChain == \E m \in 0..MaxChain : registerRouteOf(<<>>, m)

\* ----------------------------------------------- $incomingMessageHandlerImpl
\* the promise returned by the handler is rejected with `reason`
Reject(reason, byCallee) ==
  /\ pc' = "rejected"
  /\ failure' = reason
  /\ threw' = (threw \/ byCallee)

\* requests reach the handler through the listening server, or through
\* the exported handler of a serverless instance
Serving == core.serverless \/ core.server = "listening"

\* http server hands a request to incomingMessageHandler
receive ==
  /\ pc = "idle"
  /\ Serving
  /\ \E p \in Paths : target' = p
  /\ pc' = "pre"
  /\ idx' = 1
  /\ UNCHANGED <<registry, construction, containers, flight, tree, snapshot, lifecycle, injection, piped,
                 modifiedOptions, modification, rawResponse,
                 response, envelopeCode, heads, wire, logs, calls, failure, threw>>

\* for (plugin of $plugins) if (plugin.onBeforeRequestReceived() === false) return
\* (a hook that raises, or that the plugin class does not define, throws)
preReceiptIgnored(result) == FALSE
preReceiptStops(result) == result = "false"

preReceipt ==
  /\ pc = "pre"
  /\ idx <= Len(plugins)
  /\ \E result \in {"false", "other", Thrown} :
       /\ calls' = Append(calls, Call("onBeforeRequestReceived", plugins[idx], result, NoVal))
       /\ IF result = Thrown
          THEN /\ Reject("hook", TRUE)
               /\ idx' = idx
          ELSE IF preReceiptStops(result)
          THEN /\ pc' = "aborted"
               /\ idx' = idx
               /\ UNCHANGED <<failure, threw>>
          ELSE /\ idx' = idx + 1
               /\ UNCHANGED <<pc, failure, threw>>
  /\ UNCHANGED <<registry, construction, containers, flight, tree, snapshot, lifecycle, injection, piped,
                 target, modifiedOptions, modification, rawResponse,
                 response, envelopeCode, heads, wire, logs>>

\* entry of $sendResponse: `if (modification.code) response.code = ...`,
\* then the pre-send hooks are consulted
EnterSend(resp, modn) ==
  /\ response' = [resp EXCEPT !.code = IF modn.code # NoCode THEN modn.code
                                       ELSE resp.code]
  /\ envelopeCode' = resp.code
  /\ modification' = modn
  /\ pc' = "presend"
  /\ idx' = 1

\* request = await processRequestContent(req); a null request is answered
\* with NotFound; otherwise every plugin's onRequestReceived is called
normalize ==
  /\ pc = "pre"
  /\ idx > Len(plugins)
  /\ \/ /\ \E limit \in MultipartLimits : Reject(limit, FALSE)
        /\ UNCHANGED <<idx, modification, response, envelopeCode, calls>>
     \/ /\ EnterSend(NotFound, NoModification)
        /\ UNCHANGED <<calls, failure, threw>>
     \/ \E k \in 0..Len(plugins) :
          /\ calls' = calls \o
               [j \in 1..(IF k = 0 THEN Len(plugins) ELSE k) |->
                  Call("onRequestReceived", plugins[j],
                       IF j = k THEN Thrown ELSE "other", NoVal)]
          /\ IF k = 0
             THEN /\ pc' = "middleware"
                  /\ idx' = 1
                  /\ UNCHANGED <<failure, threw>>
             ELSE /\ Reject("hook", TRUE)
                  /\ idx' = idx
          /\ UNCHANGED <<modification, response, envelopeCode>>
  /\ snapshot' = IF pc' = "middleware" THEN middlewares ELSE snapshot
  /\ UNCHANGED <<registry, construction, containers, flight, tree, lifecycle,
                 injection, piped, target, modifiedOptions, rawResponse,
                 heads, wire, logs>>


\* $formatResponse(response); `readable` is the outcome of fs.readFile
formatResponseUnread(r, readable) ==
  IF r.kind \in {"Error", "Exception"} THEN fromError(r)
  ELSE IF r.kind \in {"Redirect", "File"} THEN r
  ELSE IF r.kind \in {"Plain", "Raw", "Stream", "Modification"} THEN r
  ELSE SigilResponse(r.content, 200, EmptyHeaders)
formatResponse(r, readable) ==
  IF r.kind \in {"Error", "Exception"} THEN fromError(r)
  ELSE IF r.kind = "Redirect" THEN r
  ELSE IF r.kind = "File"
  THEN IF readable THEN [r EXCEPT !.content = "bytes"]
       ELSE Exception(404, "NotFound", "File at path not found")
  ELSE IF r.kind \in {"Plain", "Raw", "Stream", "Modification"} THEN r
  ELSE SigilResponse(r.content, 200, EmptyHeaders)

\* outcomes of fs.readFile that matter for a returned value
ReadOutcomes(r) == IF r.kind = "File" THEN BOOLEAN ELSE {TRUE}

\* merge of a modification request into modifiedOptions (lines 255-256)
MergeModification(current, resp) ==
  [headers |-> Assign(current.headers, resp.headers),
   code |-> resp.code]

\* what the middleware loop does with a formatted, defined result: a
\* modification request is merged and the loop goes on, anything else is
\* sent at once with an empty modification (lines 254-258)
middlewareStepNoReturn(current, resp) ==
  [send |-> FALSE,
   options |-> IF resp.kind = "Modification"
               THEN MergeModification(current, resp) ELSE current]
middlewareStep(current, resp) ==
  IF resp.kind = "Modification"
  THEN [send |-> FALSE, options |-> MergeModification(current, resp)]
  ELSE [send |-> TRUE, options |-> current]

\* one turn of `for (const middleware of this.$middlewares.values())`
middleware ==
  /\ pc = "middleware"
  /\ idx <= Len(middlewares)
  /\ \/ /\ calls' = Append(calls, Call("middleware", middlewares[idx],
                                       "undefined", NoVal))
        /\ idx' = idx + 1
        /\ UNCHANGED <<pc, modifiedOptions, modification, response,
                       envelopeCode, failure, threw>>
     \/ /\ calls' = Append(calls, Call("middleware", middlewares[idx],
                                       Thrown, NoVal))
        /\ Reject("middleware", TRUE)
        /\ UNCHANGED <<idx, modifiedOptions, modification, response,
                       envelopeCode>>
     \/ \E opts \in ModificationOptions :
          LET resp == formatResponse(MiddlewareModificationRequest(opts), TRUE)
              step == middlewareStep(modifiedOptions, resp)
          IN /\ calls' = Append(calls, Call("middleware", middlewares[idx],
                                            "modification", Options(opts)))
             /\ modifiedOptions' = step.options
             /\ IF step.send
                THEN EnterSend(resp, NoModification)
                ELSE /\ idx' = idx + 1
                     /\ UNCHANGED <<pc, modification, response, envelopeCode>>
             /\ UNCHANGED <<failure, threw>>
     \/ \E result \in MiddlewareReturns :
        \E readable \in ReadOutcomes(result) :
          LET resp == formatResponse(result, readable)
              step == middlewareStep(modifiedOptions, resp)
          IN /\ calls' = Append(calls, Call("middleware", middlewares[idx],
                                            "response", resp))
             /\ modifiedOptions' = step.options
             /\ IF step.send
                THEN EnterSend(resp, NoModification)
                ELSE /\ idx' = idx + 1
                     /\ UNCHANGED <<pc, modification, response, envelopeCode>>
             /\ UNCHANGED <<failure, threw>>
  /\ UNCHANGED <<registry, construction, containers, flight, tree, snapshot, lifecycle, injection, piped,
                 target, rawResponse, heads, wire, logs>>

\* codes a middleware assigns to the options object it receives as its third
\* argument (a plain object, `code?: number`); http's writeHead accepts
\* 100..999
AssignedCodes == {700}

\* a middleware that writes `modifiedOptions.code = c` and returns undefined
middlewareAssigns ==
  /\ pc = "middleware"
  /\ idx <= Len(middlewares)
  /\ \E c \in AssignedCodes :
       /\ calls' = Append(calls, Call("middleware", middlewares[idx],
                                      "undefined", NoVal))
       /\ modifiedOptions' = [modifiedOptions EXCEPT !.code = c]
       /\ idx' = idx + 1
  /\ UNCHANGED <<pc, modification, response, envelopeCode, failure, threw,
                 registry, construction, containers, flight, tree, snapshot,
                 lifecycle, injection, piped, target, rawResponse, heads,
                 wire, logs>>

\* $root.__$pathfinder.lookup(request.method, request.path)
lookupMatches == route.registered /\ target = "/items"

\* what the fallback of line 274 hands to $sendResponse
notFoundFallbackBare(overrides) ==
  [response |-> NotFound, modification |-> NoModification]
notFoundFallback(overrides) ==
  [response |-> NotFound, modification |-> overrides]

lookup ==
  /\ pc = "middleware"
  /\ idx > Len(middlewares)
  /\ calls' = Append(calls, Call("lookup", 0, IF lookupMatches THEN "match" ELSE "null", NoVal))
  /\ IF lookupMatches
     THEN /\ pc' = "validate"
          /\ idx' = 1
          /\ UNCHANGED <<modification, response, envelopeCode>>
     ELSE EnterSend(notFoundFallback(modifiedOptions).response,
                    notFoundFallback(modifiedOptions).modification)
  /\ UNCHANGED <<registry, construction, containers, flight, tree, snapshot, lifecycle, injection, piped,
                 target, modifiedOptions, rawResponse, heads, wire,
                 logs, failure, threw>>

\* catch block of $executeHandler
Catch(error) ==
  IF fromErrorThrows(error)
  THEN /\ Reject("TypeError", TRUE)
       /\ UNCHANGED rawResponse
  ELSE /\ rawResponse' = fromError(error)
       /\ pc' = "format"
       /\ threw' = TRUE
       /\ UNCHANGED failure

\* the ValidationError of the validation library, built from a message;
\* the class belongs to @sigiljs/seal, its `code` is whatever that class sets
ValidationError(message, code) == ErrorVal("ValidationError", message, code)
ValidationErrorCodes == {NoCode, 400}

defaultResponse(type) ==
  "Provided request cannot be processed due to invalid " \o type

\* validation of one schema slot: "nonobject" the validationParams entry is
\* not a non-null object, "invalid" seal.validate returns messages,
\* "valid" it returns none
SlotStatus == {"valid", "invalid", "nonobject"}

\* index of the first slot of the chain that fails, 0 when none does
FirstFailing(chain, st) ==
  IF \A j \in 1..Len(chain) : st[j] = "valid" THEN 0
  ELSE CHOOSE j \in 1..Len(chain) :
         /\ st[j] # "valid"
         /\ \A i \in 1..(j - 1) : st[i] = "valid"

\* the registered closure of RouteRequests.$request up to $injectModifier
validateFailsAtInvalid(chain, st) ==
  FirstFailing(chain, [j \in 1..Len(chain) |->
                         IF st[j] = "nonobject" THEN "valid" ELSE st[j]])
validateFailsAt(chain, st) == FirstFailing(chain, st)

validate ==
  /\ pc = "validate"
  /\ IF options.skip
     THEN /\ pc' = "modifier"
          /\ idx' = 1
          /\ UNCHANGED <<calls, rawResponse>>
     ELSE \E st \in [1..Len(route.schemas) -> SlotStatus] :
          \E code \in ValidationErrorCodes :
            LET k == validateFailsAt(route.schemas, st)
                last == IF k = 0 THEN Len(route.schemas) ELSE k
                seen == [j \in 1..last |-> Call("validate", j, st[j], NoVal)]
            IN /\ calls' = calls \o seen
               /\ IF k = 0
                  THEN /\ pc' = "modifier"
                       /\ idx' = 1
                       /\ UNCHANGED rawResponse
                  ELSE /\ pc' = "format"
                       /\ idx' = idx
                       /\ rawResponse' =
                            IF st[k] = "nonobject"
                            THEN ValidationError(
                                   defaultResponse(route.schemas[k]), code)
                            ELSE fromError(ValidationError(
                                   IF options.messages THEN "messages"
                                   ELSE defaultResponse(route.schemas[k]),
                                   code))
  /\ UNCHANGED <<registry, construction, containers, flight, tree, snapshot, lifecycle, injection, piped,
                 target, modifiedOptions, modification, response, envelopeCode,
                 heads, wire, logs, failure, threw>>

\* the argument of instance.onRequest in the loop of $injectModifier:
\* `req`, the request the closure was called with
onRequestArgument(req, next) == req

\* one turn of the loop of RouteCore.$injectModifier: the modifier is
\* called, its result awaited and spread over nextRequest
modifier ==
  /\ pc = "modifier"
  /\ idx <= route.modifiers
  /\ \/ LET received == onRequestArgument(ClientRequest, nextRequest)
            payload == onRequest(idx, received)
        IN /\ calls' = Append(calls, Call("modifier", idx, "payload", NoVal))
           /\ injections' = Append(injections,
                  [n |-> idx, received |-> received, payload |-> payload])
           /\ nextRequest' = Spread(nextRequest, payload)
           /\ idx' = idx + 1
           /\ UNCHANGED <<pc, rawResponse, failure, threw>>
     \/ \E error \in ThrownValues :
          /\ calls' = Append(calls, Call("modifier", idx, Thrown, error))
          /\ Catch(error)
          /\ idx' = idx
          /\ UNCHANGED <<nextRequest, injections>>
  /\ UNCHANGED <<registry, construction, containers, flight, tree, snapshot, lifecycle, piped, target,
                 modifiedOptions, modification, response, envelopeCode,
                 heads, wire, logs>>

\* handler(await ref.$injectModifier(_request), new SigilResponsesList())
\* for a handler that returns r, or throws r
handlerOf(r, throws) ==
  /\ pc = "modifier"
  /\ idx > route.modifiers
  /\ IF throws
     THEN /\ calls' = Append(calls, Call("handler", 0, Thrown, r))
          /\ Catch(r)
     ELSE /\ calls' = Append(calls, Call("handler", 0, "returned", r))
          /\ rawResponse' = r
          /\ pc' = "format"
          /\ UNCHANGED <<failure, threw>>
  /\ UNCHANGED <<registry, construction, containers, flight, tree, snapshot, lifecycle, nextRequest, injections,
                 piped, idx, target, modifiedOptions, modification,
                 response, envelopeCode, heads, wire, logs>>

handler ==
  \/ \E r \in HandlerReturns : handlerOf(r, FALSE)
  \/ \E error \in ThrownValues : handlerOf(error, TRUE)

\* a handler whose result goes through the response template
respond ==
  \/ \E r \in TemplateReturns : handlerOf(r, FALSE)
  \/ \E error \in ThrownValues : handlerOf(error, TRUE)

\* response = await this.$formatResponse(rawResponse), then $sendResponse
format ==
  /\ pc = "format"
  /\ \E readable \in ReadOutcomes(rawResponse) :
       EnterSend(formatResponse(rawResponse, readable), modifiedOptions)
  /\ UNCHANGED <<registry, construction, containers, flight, tree, snapshot, lifecycle, injection, piped,
                 target, modifiedOptions, rawResponse, heads, wire,
                 logs, calls, failure, threw>>


\* `typeof template.content === "string" ? template.content
\*    : jsonStringify(template.content)` of the last branch of $sendResponse
ended(content) ==
  IF content.t = "raw" THEN Body("json", Absent, content.content)
  ELSE content

\* res.writeHead(code, headers).end(body)
Write(code, headers, body) ==
  /\ heads' = Append(heads, [code |-> code, headers |-> headers])
  /\ wire' = Append(wire, [code |-> code, headers |-> headers, body |-> body])

\* where $sendResponse stands once plugin number i has returned a result
\* that was written: `return` (line 76)
afterOverrideNextPlugin(i) == [pc |-> "presend", idx |-> i + 1]
afterOverride(i) == [pc |-> "done", idx |-> i]

\* one turn of the onBeforeResponseSent loop of $sendResponse (lines 71-78)
preSend ==
  /\ pc = "presend"
  /\ idx <= Len(plugins)
  /\ \/ /\ calls' = Append(calls, Call("onBeforeResponseSent", plugins[idx],
                                       "undefined", NoVal))
        /\ idx' = idx + 1
        /\ UNCHANGED <<pc, heads, wire, failure, threw>>
     \/ /\ calls' = Append(calls, Call("onBeforeResponseSent", plugins[idx],
                                       Thrown, NoVal))
        /\ Reject("hook", TRUE)
        /\ UNCHANGED <<idx, heads, wire>>
     \/ \E result \in PluginOverrides :
          LET called == Call("onBeforeResponseSent", plugins[idx],
                             "override", NoVal)
              headers == Assign(result.headers, modification.headers)
              content == IF result.content \in {"buf", "str"}
                         THEN result.content
                         ELSE jsonStringify(result.content, TRUE)
          IN /\ calls' = Append(calls, called)
             /\ IF content = Thrown
                THEN /\ heads' = Append(heads, [code |-> result.code,
                                                headers |-> headers])
                     /\ Reject("override content", FALSE)
                     /\ UNCHANGED <<idx, wire>>
                ELSE /\ Write(result.code, headers,
                              Body("raw", Absent, result.content))
                     /\ pc' = afterOverride(idx).pc
                     /\ idx' = afterOverride(idx).idx
                     /\ UNCHANGED <<failure, threw>>
  /\ UNCHANGED <<registry, construction, containers, flight, tree, snapshot, lifecycle, injection, piped,
                 target, modifiedOptions, modification, rawResponse,
                 response, envelopeCode, logs>>

\* headers written for a stream response (lines 83-87)
streamHeaders(resp, modn) ==
  LET headers == Assign(resp.headers, modn.headers)
  IN IF headers["content-type"] = Absent
     THEN [headers EXCEPT !["content-type"] = "application/octet-stream"]
     ELSE headers

\* `template.code > 399 && codeOnlyResponse.includes(template.code)`
codeOnly(template) ==
  template.code > 399 /\ template.code \in options.codeOnly

\* the access-log record of lines 107-112
accessLog(resp) ==
  Log(IF resp.code > 499 THEN "error" ELSE "info", "requests", resp.code)

\* the onBeforeResponseSent loop is left once every plugin was asked
hooksConsultedEarly(i) == TRUE
hooksConsulted(i) == i > Len(plugins)

\* the rest of $sendResponse once no plugin has taken the response over
send ==
  /\ pc = "presend"
  /\ hooksConsulted(idx)
  /\ IF isStream(response)
     THEN /\ heads' = Append(heads,
               [code |-> response.code,
                headers |-> streamHeaders(response, modification)])
          /\ pc' = "piping"
          /\ UNCHANGED <<wire, logs, failure, threw>>
     ELSE LET template == defaultTemplate(response)
          IN IF template.thrown
             THEN /\ Reject("template", TRUE)
                  /\ UNCHANGED <<heads, wire, logs>>
             ELSE IF codeOnly(template)
             THEN /\ logs' = Append(logs, accessLog(response))
                  /\ Write(template.code, modification.headers, EmptyBody)
                  /\ pc' = "done"
                  /\ UNCHANGED <<failure, threw>>
             ELSE IF response.kind = "Raw"
             THEN LET content == IF response.content \in {"str", "buf"}
                                 THEN response.content
                                 ELSE jsonStringify(response.content, TRUE)
                  IN /\ logs' = Append(logs, accessLog(response))
                     /\ IF content = Thrown
                        THEN /\ Reject("raw content", FALSE)
                             /\ UNCHANGED <<heads, wire>>
                        ELSE /\ Write(response.code,
                                  Assign(response.headers, modification.headers),
                                  Body("raw", Absent, response.content))
                             /\ pc' = "done"
                             /\ UNCHANGED <<failure, threw>>
             ELSE IF response.kind = "File"
             THEN /\ logs' = Append(logs, accessLog(response))
                  /\ Write(response.code,
                           Assign(response.headers, modification.headers),
                           Body("raw", Absent, response.content))
                  /\ pc' = "done"
                  /\ UNCHANGED <<failure, threw>>
             ELSE IF response.kind = "Exception"
             THEN /\ logs' = Append(logs, accessLog(response)) \o
                      (IF response.code > 499
                       THEN <<Log("error", "handler", response.code)>>
                       ELSE <<>>)
                  /\ Write(response.code,
                           Assign(template.headers, modification.headers),
                           template.content)
                  /\ pc' = "done"
                  /\ UNCHANGED <<failure, threw>>
             ELSE IF response.kind = "Redirect"
             THEN /\ logs' = Append(logs, accessLog(response))
                  /\ Write(response.code,
                           Assign(response.headers, modification.headers),
                           EmptyBody)
                  /\ pc' = "done"
                  /\ UNCHANGED <<failure, threw>>
             ELSE /\ logs' = Append(logs, accessLog(response))
                  /\ Write(template.code,
                           Assign(template.headers, modification.headers),
                           ended(template.content))
                  /\ pc' = "done"
                  /\ UNCHANGED <<failure, threw>>
  /\ piped' = IF isStream(response)
              THEN [source |-> "flowing", flushed |-> FALSE]
              ELSE piped
  /\ UNCHANGED <<registry, construction, containers, flight, tree, snapshot, lifecycle, injection,
                 idx, target, modifiedOptions, modification,
                 rawResponse, response, envelopeCode, calls>>

\* stream.pipe(res): the source ends and the response is ended with it
streamEnd ==
  /\ pc = "piping"
  /\ wire' = Append(wire, [code |-> heads[Len(heads)].code,
                           headers |-> heads[Len(heads)].headers,
                           body |-> Body("stream", Absent, "readable")])
  /\ piped' = [source |-> "ended", flushed |-> TRUE]
  /\ pc' = "done"
  /\ UNCHANGED <<registry, construction, containers, flight, tree, snapshot, lifecycle, injection, idx, target,
                 modifiedOptions, modification, rawResponse, response,
                 envelopeCode, heads, logs, calls, failure, threw>>

\* res.headersSent: set by writeHead, whether or not a byte has left
headersSent(written) == written # <<>>

\* stream.on("error"): `if (!res.headersSent) res.writeHead(500); res.end()`.
\* The listener is attached after res.writeHead(response.code, headers);
\* the source fails before or after its first chunk has been flushed.
streamError ==
  /\ pc = "piping"
  /\ \E flushed \in BOOLEAN :
       LET written == IF headersSent(heads) THEN heads
                      ELSE Append(heads, [code |-> 500,
                                          headers |-> EmptyHeaders])
       IN /\ heads' = written
          /\ wire' = Append(wire,
                [code |-> written[Len(written)].code,
                 headers |-> written[Len(written)].headers,
                 body |-> Body("stream", Absent,
                               IF flushed THEN "partial" ELSE "nil")])
          /\ piped' = [source |-> "errored", flushed |-> flushed]
  /\ pc' = "done"
  /\ UNCHANGED <<registry, construction, containers, flight, tree, snapshot, lifecycle, injection, idx, target,
                 modifiedOptions, modification, rawResponse, response,
                 envelopeCode, logs, calls, failure, threw>>

\* res.on("close"): `if (typeof stream.destroy === "function")
\* stream.destroy()`, for a source that is a stream.Readable
releaseKept(source) == source
release(source) == "destroyed"

\* the client closes the connection while the source is piped
clientClose ==
  /\ pc = "piping"
  /\ \E flushed \in BOOLEAN :
       piped' = [source |-> release(piped.source), flushed |-> flushed]
  /\ pc' = "closed"
  /\ UNCHANGED <<registry, construction, containers, flight, tree, snapshot, lifecycle, injection, idx, target,
                 modifiedOptions, modification, rawResponse, response,
                 envelopeCode, heads, wire, logs, calls, failure, threw>>

\* ------------------------------------------- calls on request containers
\* headers.set(name, value)
set ==
  /\ jar.calls < MaxHeaderCalls
  /\ \E name \in HeaderNames, value \in CookieLines :
       LET key == toLowerCase(name)
       IN jar' = [map |-> [jar.map EXCEPT ![key] = <<value>>],
                  cookies |-> IF key = "cookie"
                              THEN parseCookie(jar.cookies, value)
                              ELSE jar.cookies,
                  calls |-> jar.calls + 1]
  /\ UNCHANGED <<registry, request, construction, lifecycle, incomingBody,
                 incoming, processed, flight, tree, snapshot>>

\* headers.append(name, value)
append ==
  /\ jar.calls < MaxHeaderCalls
  /\ \E name \in HeaderNames, value \in CookieLines :
       LET key == toLowerCase(name)
       IN jar' = [map |-> [jar.map EXCEPT ![key] = Append(@, value)],
                  cookies |-> IF key = "cookie"
                              THEN parseCookie(jar.cookies, value)
                              ELSE jar.cookies,
                  calls |-> jar.calls + 1]
  /\ UNCHANGED <<registry, request, construction, lifecycle, incomingBody,
                 incoming, processed, flight, tree, snapshot>>

\* headers.delete(name)
delete ==
  /\ jar.calls < MaxHeaderCalls
  /\ \E name \in HeaderNames :
       LET key == toLowerCase(name)
       IN jar' = [map |-> [jar.map EXCEPT ![key] = <<>>],
                  cookies |-> IF key = "cookie"
                              THEN IncomingHeaders.cookies
                              ELSE jar.cookies,
                  calls |-> jar.calls + 1]
  /\ UNCHANGED <<registry, request, construction, lifecycle, incomingBody,
                 incoming, processed, flight, tree, snapshot>>

\* new IncomingBody(buffer)
newBody ==
  /\ incomingBody = NoBody
  /\ \E buffer \in Buffers : incomingBody' = IncomingBody(buffer)
  /\ UNCHANGED <<registry, request, construction, lifecycle, jar,
                 incoming, processed, flight, tree, snapshot>>

\* body.text(), as json() calls it too: the fields after the call and the
\* string it returns
text(b) ==
  IF b.text # Undefined THEN [body |-> b, value |-> b.text]
  ELSE [body |-> [b EXCEPT !.text = toString(b.buffer),
                           !.computed["text"] = @ + 1],
        value |-> toString(b.buffer)]

\* body.json(nonNullable)
json ==
  /\ incomingBody # NoBody
  /\ Len(incomingBody.returned) < MaxBodyCalls
  /\ \E nonNullable \in BOOLEAN :
       IF incomingBody.json # Undefined
       THEN incomingBody' =
              [incomingBody EXCEPT
                 !.returned = Append(@, Returned("json", incomingBody.json))]
       ELSE LET t == text(incomingBody)
                n == t.body.computed["json"] + 1
                parsed == jsonParse(t.value, nonNullable, n)
            IN incomingBody' =
                 [t.body EXCEPT
                    !.computed["json"] = n,
                    !.json = IF parsed = DeserializeError THEN @ ELSE parsed,
                    !.returned = Append(@, Returned("json", parsed))]
  /\ UNCHANGED <<registry, request, construction, lifecycle, jar,
                 incoming, processed, flight, tree, snapshot>>

\* body.text() called by user code
bodyText ==
  /\ incomingBody # NoBody
  /\ Len(incomingBody.returned) < MaxBodyCalls
  /\ LET t == text(incomingBody)
     IN incomingBody' =
          [t.body EXCEPT !.returned = Append(@, Returned("text", t.value))]
  /\ UNCHANGED <<registry, request, construction, lifecycle, jar,
                 incoming, processed, flight, tree, snapshot>>

\* body.blob(mimeType)
blob ==
  /\ incomingBody # NoBody
  /\ Len(incomingBody.returned) < MaxBodyCalls
  /\ \E mimeType \in MimeTypes :
       IF incomingBody.blob # Undefined
       THEN incomingBody' =
              [incomingBody EXCEPT
                 !.returned = Append(@, Returned("blob", incomingBody.blob))]
       ELSE LET made == [bytes |-> incomingBody.buffer, type |-> mimeType]
            IN incomingBody' =
                 [incomingBody EXCEPT
                    !.blob = made,
                    !.computed["blob"] = @ + 1,
                    !.returned = Append(@, Returned("blob", made))]
  /\ UNCHANGED <<registry, request, construction, lifecycle, jar,
                 incoming, processed, flight, tree, snapshot>>

\* body.urlSearchParams()
urlSearchParams ==
  /\ incomingBody # NoBody
  /\ Len(incomingBody.returned) < MaxBodyCalls
  /\ IF incomingBody.query # Undefined
     THEN incomingBody' =
            [incomingBody EXCEPT
               !.returned = Append(@, Returned("query", incomingBody.query))]
     ELSE LET made == [params |-> toString(incomingBody.buffer)]
          IN incomingBody' =
               [incomingBody EXCEPT
                  !.query = made,
                  !.computed["query"] = @ + 1,
                  !.returned = Append(@, Returned("query", made))]
  /\ UNCHANGED <<registry, request, construction, lifecycle, jar,
                 incoming, processed, flight, tree, snapshot>>

\* a call of processRequestContent on the message at hand
processRequestContent ==
  /\ incoming # NoMessage
  /\ processed = NotProcessed
  /\ processed' = contentOf(incoming)
  /\ UNCHANGED <<registry, request, construction, lifecycle, jar,
                 incomingBody, incoming, flight, tree, snapshot>>

\* ----------------------------------------------- requests side by side
\* request r arrives: $incomingMessageHandlerImpl up to the middleware loop
laneReceive(r) ==
  /\ lanes[r].pc = "idle"
  /\ lanes' = [lanes EXCEPT ![r].pc = "middleware"]
  /\ UNCHANGED shared

\* `await middleware(request, responses, modifiedOptions)` of request r:
\* the middleware returns nothing or a modification request (lines 250-257)
laneMiddleware(r) ==
  /\ lanes[r].pc = "middleware"
  /\ \/ lanes' = [lanes EXCEPT ![r].pc = "handler"]
     \/ \E opts \in ModificationOptions :
          LET resp == formatResponse(MiddlewareModificationRequest(opts), TRUE)
              step == middlewareStep(lanes[r].modifiedOptions, resp)
          IN lanes' = [lanes EXCEPT ![r].pc = "handler",
                                    ![r].modifiedOptions = step.options]
  /\ UNCHANGED shared

\* the envelope request r holds a reference to
envelopeOf(r) == IF lanes[r].response = "shared" THEN shared ELSE lanes[r].own

\* the handler of request r returns the kept envelope or a new one, and
\* $sendResponse starts on it: `if (modification.code) response.code =
\* modification.code`, then it awaits the first onBeforeResponseSent
laneHandler(r) ==
  /\ lanes[r].pc = "handler"
  /\ \E kept \in BOOLEAN :
       LET modn == lanes[r].modifiedOptions
           code(env) == IF modn.code # NoCode THEN modn.code ELSE env.code
       IN IF kept
          THEN /\ shared' = [shared EXCEPT !.code = code(shared)]
               /\ lanes' = [lanes EXCEPT ![r].pc = "presend",
                                         ![r].response = "shared"]
          ELSE /\ lanes' = [lanes EXCEPT ![r].pc = "presend",
                                         ![r].response = "own",
                                         ![r].own.code = code(Pong)]
               /\ UNCHANGED shared

\* the hooks of request r are through: res.writeHead(response.code,
\* Object.assign(response.headers.link, modification.headers)).end(content)
laneSendResponse(r) ==
  /\ lanes[r].pc = "presend"
  /\ LET env == envelopeOf(r)
         headers == Assign(env.headers, lanes[r].modifiedOptions.headers)
         head == [code |-> env.code, headers |-> headers]
     IN IF lanes[r].response = "shared"
        THEN /\ shared' = [shared EXCEPT !.headers = headers]
             /\ lanes' = [lanes EXCEPT ![r].pc = "done",
                                       ![r].written = <<head>>]
        ELSE /\ lanes' = [lanes EXCEPT ![r].pc = "done",
                                       ![r].written = <<head>>,
                                       ![r].own.headers = headers]
             /\ UNCHANGED shared

inFlight ==
  /\ \E r \in Lanes :
       \/ laneReceive(r)
       \/ laneMiddleware(r)
       \/ laneHandler(r)
       \/ laneSendResponse(r)
  /\ UNCHANGED <<registry, request, construction, lifecycle, containers,
                 tree, snapshot>>

\* ---------------------------------------------------------- router tree
\* new Route() in user code
newRouter ==
  /\ Len(routers) < MaxRouters
  /\ routers' = Append(routers, RouteCore)
  /\ UNCHANGED <<registry, request, construction, lifecycle, containers,
                 flight, mounts, snapshot>>

\* parent.mount(path, route) of a router that is not mounted yet, under a
\* router made before it: this.$mounted.set(path, route)
mount ==
  /\ \E parent, child \in 1..Len(routers), path \in Prefixes :
       /\ parent < child
       /\ \A k \in 1..Len(mounts) : mounts[k].child # child
       /\ routers' = [routers EXCEPT ![parent].mounted[path] = child]
       /\ mounts' = Append(mounts, [parent |-> parent, path |-> path,
                                    child |-> child])
  /\ UNCHANGED <<registry, request, construction, lifecycle, containers,
                 flight, snapshot>>

\* the requestKeys handed out so far
requestKeys(rs) ==
  UNION { { entry.key : entry \in rs[r].registered } : r \in DOMAIN rs }

\* route.get(path, handler) and the other verbs: $request stores the
\* descriptor under a new requestKey
registerRequest ==
  /\ Cardinality(requestKeys(routers)) < MaxRequests
  /\ \E r \in 1..Len(routers), path \in Patterns :
       routers' = [routers EXCEPT ![r].registered =
                     @ \cup {RequestDescriptor(
                               Cardinality(requestKeys(routers)) + 1, path)}]
  /\ UNCHANGED <<registry, request, construction, lifecycle, containers,
                 flight, mounts, snapshot>>

\* ------------------------------------------- registry changes in flight
\* the request is inside `await middleware(...)` of its middleware loop
awaitingMiddleware ==
  /\ pc = "middleware"
  /\ calls # <<>>
  /\ calls[Len(calls)].ev = "middleware"

\* addMiddleware called while the request is inside its middleware loop,
\* by the middleware just invoked or by other code running during its await
addMiddlewareDuring ==
  /\ awaitingMiddleware
  /\ Len(middlewares) < MaxMiddlewares
  /\ Len(middlewares) + Cardinality(removed) < MaxHandles
  /\ middlewares' = Append(middlewares,
                           Len(middlewares) + Cardinality(removed) + 1)
  /\ UNCHANGED <<options, plugins, route, request, construction, containers,
                 flight, tree, snapshot, lifecycle>>

\* removeMiddleware called at such a moment: the iterator of
\* $middlewares.values() keeps its place among the entries that are left
removeMiddlewareDuring ==
  /\ awaitingMiddleware
  /\ \E j \in 1..Len(middlewares) :
       /\ middlewares' = deleteEntry(middlewares, middlewares[j])
       /\ removed' = removed \cup {middlewares[j]}
       /\ idx' = IF j < idx THEN idx - 1 ELSE idx
  /\ UNCHANGED <<options, plugins, route, registrations, drafts, table, built,
                 containers, flight, tree, snapshot, lifecycle, pc, target,
                 modifiedOptions, modification, rawResponse, response,
                 envelopeCode, heads, wire, logs, calls, failure, threw,
                 nextRequest, injections, piped>>

Next ==
  \/ addPlugin
  \/ addMiddleware
  \/ registerRoute
  \/ receive
  \/ preReceipt
  \/ normalize
  \/ middleware
  \/ lookup
  \/ validate
  \/ modifier
  \/ handler
  \/ format
  \/ preSend
  \/ send
  \/ streamEnd
  \/ streamError

Spec == Init /\ [][Next]_vars

\* user code constructing response objects
NextEnvelopes == construct
SpecEnvelopes == Init /\ [][NextEnvelopes]_vars

\* plugin registration, then a request through the registered plugins
NextPlugins ==
  \/ addAnyPlugin
  \/ receive
  \/ preReceipt
  \/ normalize
  \/ lookup
  \/ preSend
  \/ send
SpecPlugins == Init /\ [][NextPlugins]_vars

\* middleware registration and removal, then a request through them
NextMiddlewares ==
  \/ addMiddleware
  \/ removeMiddleware
  \/ receive
  \/ normalize
  \/ middleware
  \/ lookup
  \/ send
SpecMiddlewares == Init /\ [][NextMiddlewares]_vars

\* schema drafts and verb registrations on one base route, then a request
NextDrafts ==
  \/ newRoute
  \/ derive
  \/ requestOn
  \/ receive
  \/ normalize
  \/ lookup
  \/ validate
  \/ handler
  \/ format
  \/ send
  \/ streamEnd
  \/ streamError
SpecDrafts == Init /\ [][NextDrafts]_vars

\* a route with a chain of modifiers, then a request up to its handler
NextModifiers ==
  \/ registerChain
  \/ receive
  \/ normalize
  \/ lookup
  \/ validate
  \/ modifier
  \/ handler
SpecModifiers == Init /\ [][NextModifiers]_vars

\* an instance of either kind: plugins, routes and verbs registered before
\* and after listen, then a request through the plugins
NextLifecycle ==
  \/ listen
  \/ addPlugin
  \/ newRoute
  \/ mountRoute
  \/ mountChild
  \/ requestOn
  \/ receive
  \/ preReceipt
  \/ normalize
  \/ lookup
  \/ preSend
  \/ send
SpecLifecycle == InitModes /\ [][NextLifecycle]_vars

\* a request whose handler result is rendered by the response template
NextTemplate ==
  \/ registerRoute
  \/ receive
  \/ normalize
  \/ lookup
  \/ validate
  \/ modifier
  \/ respond
  \/ format
  \/ send
SpecTemplate == Init /\ [][NextTemplate]_vars

\* a request answered by its route, every response variant included, with
\* the events of a piped stream
NextResponses ==
  \/ registerRoute
  \/ receive
  \/ normalize
  \/ lookup
  \/ validate
  \/ modifier
  \/ handler
  \/ format
  \/ send
  \/ streamEnd
  \/ streamError
  \/ clientClose
SpecResponses == Init /\ [][NextResponses]_vars

\* an instance of either kind with its plugins, the connections to its
\* server and the shutdown of the process; timers fire and settled
\* promises are continued, a client may keep its connection for ever
NextShutdown ==
  \/ listen
  \/ addPlugin
  \/ connect
  \/ disconnect
  \/ signal
  \/ closed
  \/ beforeExit
  \/ cleaned
  \/ cleanupTimeout
  \/ exit
SpecShutdown ==
  /\ InitModes
  /\ [][NextShutdown]_vars
  /\ WF_vars(closed)
  /\ WF_vars(beforeExit)
  /\ WF_vars(cleaned)
  /\ WF_vars(cleanupTimeout)
  /\ WF_vars(exit)


\* user code working on a header container
NextHeaders ==
  \/ set
  \/ append
  \/ delete
SpecHeaders == Init /\ [][NextHeaders]_vars


\* user code reading the views of a body container
NextBody ==
  \/ newBody
  \/ json
  \/ bodyText
  \/ blob
  \/ urlSearchParams
SpecBody == Init /\ [][NextBody]_vars


\* one message through processRequestContent
NextContent == processRequestContent
SpecContent == InitMessages /\ [][NextContent]_vars


\* requests interleaved at their await points
NextInFlight == inFlight
SpecInFlight == Init /\ [][NextInFlight]_vars


\* user code building a tree of routers
NextRouters ==
  \/ newRouter
  \/ mount
  \/ registerRequest
SpecRouters == Init /\ [][NextRouters]_vars


\* a request whose middleware phase sees the registry change under it
\* the pipeline with middlewares that write to the options object
NextAssign ==
  \/ addMiddleware
  \/ registerRoute
  \/ receive
  \/ normalize
  \/ middleware
  \/ middlewareAssigns
  \/ lookup
  \/ validate
  \/ modifier
  \/ handler
  \/ format
  \/ send
SpecAssign == Init /\ [][NextAssign]_vars

NextChurn ==
  \/ addMiddleware
  \/ removeMiddleware
  \/ receive
  \/ normalize
  \/ middleware
  \/ addMiddlewareDuring
  \/ removeMiddlewareDuring
  \/ lookup
  \/ send
SpecChurn == Init /\ [][NextChurn]_vars


\* ------------------------------------------------------------ properties
HasCall(ev) == \E k \in 1..Len(calls) : calls[k].ev = ev
HasOverride ==
  \E k \in 1..Len(calls) :
    calls[k].ev = "onBeforeResponseSent" /\ calls[k].out = "override"
Dispatch == {"validate", "modifier", "handler"}
Finished == pc \in {"done", "rejected"}

\* headers of the modification requests returned so far, later ones on top
RECURSIVE MergedHeaders(_)
MergedHeaders(seq) ==
  IF seq = <<>> THEN EmptyHeaders
  ELSE LET before == MergedHeaders(SubSeq(seq, 1, Len(seq) - 1))
           last == seq[Len(seq)]
       IN IF last.ev = "middleware" /\ last.out = "modification"
          THEN [k \in HeaderKeys |->
                  IF last.val.headers[k] = Absent THEN before[k]
                  ELSE last.val.headers[k]]
          ELSE before

\* the last status a modification request's options specified, if any
RECURSIVE LastStatus(_)
LastStatus(seq) ==
  IF seq = <<>> THEN NoCode
  ELSE LET last == seq[Len(seq)]
       IN IF /\ last.ev = "middleware"
             /\ last.out = "modification"
             /\ last.val.code # NoCode
          THEN last.val.code
          ELSE LastStatus(SubSeq(seq, 1, Len(seq) - 1))

\* C1: a request that no pre-receipt hook aborts and in which no hook,
\* middleware, handler or template throws is answered exactly once: never
\* two responses, and one response once the pipeline has ended.
C1_ExactlyOneResponse ==
  /\ Len(wire) <= 1
  /\ (Finished /\ ~threw) => Len(wire) = 1

\* C2: a middleware that returns a response has it handed to Send and
\* nothing but pre-send hooks runs after it (no later middleware, lookup,
\* validation, modifier or handler); a middleware that returns a
\* modification request has its headers and status merged into the running
\* overrides and is followed by the next middleware or by the route lookup.
C2_MiddlewareShortCircuit ==
  /\ modifiedOptions.headers = MergedHeaders(calls)
  /\ \A k \in 1..Len(calls) :
       (/\ calls[k].ev = "middleware" /\ calls[k].out = "modification"
        /\ calls[k].val.code # NoCode
        /\ \A j \in (k + 1)..Len(calls) : calls[j].out # "modification")
       => modifiedOptions.code = calls[k].val.code
  /\ \A k \in 1..Len(calls) :
       /\ (calls[k].ev = "middleware" /\ calls[k].out = "response") =>
            /\ \A j \in (k + 1)..Len(calls) :
                 calls[j].ev = "onBeforeResponseSent"
            /\ pc \in {"presend", "piping", "done", "rejected"}
            /\ response = calls[k].val
       /\ (calls[k].ev = "middleware" /\ calls[k].out = "modification") =>
            IF k = Len(calls)
            THEN pc = "middleware" /\ idx = calls[k].n + 1
            ELSE \/ /\ calls[k + 1].ev = "middleware"
                    /\ calls[k + 1].n = calls[k].n + 1
                 \/ /\ calls[k + 1].ev = "lookup"
                    /\ calls[k].n = Len(middlewares)

C2_Witness ==
  /\ pc = "done"
  /\ Len(middlewares) = 2
  /\ route.registered
  /\ target = "/items"
  /\ \E k \in 1..Len(calls) :
       /\ calls[k].ev = "middleware" /\ calls[k].out = "modification"
       /\ calls[k + 1].ev = "middleware" /\ calls[k + 1].out = "response"

\* C3: once a pre-receipt hook has returned false nothing else runs for the
\* request (no later pre-receipt hook, no onRequestReceived, middleware,
\* handler or pre-send hook) and nothing is written.
C3_PreReceiptAbort ==
  \A k \in 1..Len(calls) :
    (calls[k].ev = "onBeforeRequestReceived" /\ calls[k].out = "false") =>
      /\ k = Len(calls)
      /\ pc = "aborted"
      /\ heads = <<>>
      /\ wire = <<>>

C3_Witness ==
  /\ pc = "aborted"
  /\ Len(plugins) = 2
  /\ Len(middlewares) >= 1
  /\ route.registered
  /\ Len(calls) = 1
  /\ calls[1].n = 1

\* C4: every value thrown by a modifier or a handler is caught: it never
\* leaves the pipeline, and the dispatch yields an Exception that keeps the
\* thrown value's name and message and has code 500 when the thrown value
\* carries no numeric code.
C4_ThrownBecomesException ==
  \A k \in 1..Len(calls) :
    (calls[k].ev \in Dispatch /\ calls[k].out = Thrown) =>
      /\ failure # "TypeError"
      /\ (k = Len(calls) /\ pc = "format") =>
           /\ rawResponse.kind = "Exception"
           /\ calls[k].val.name # Absent =>
                rawResponse.name = calls[k].val.name
           /\ calls[k].val.message \notin {Absent, ""} =>
                rawResponse.message = calls[k].val.message
           /\ calls[k].val.code \in {NoCode, StrCode} =>
                rawResponse.code = 500

\* C5: from the route lookup on, a response template that throws, or a
\* Plain or Raw content that cannot be serialised, does not end the
\* pipeline with a rejected promise: the client gets an Exception response.
C5_SendFailureAnswered ==
  (HasCall("lookup") /\ Finished /\ ~HasOverride) =>
    /\ failure \notin {"template", "raw content"}
    /\ Len(wire) = 1 \/ failure # "none"

\* C6: a multipart body that violates a configured limit is answered with a
\* 4xx response; the rejection never leaves the pipeline unanswered.
C6_LimitAnswered ==
  failure \in MultipartLimits =>
    /\ pc # "rejected"
    /\ pc = "done" => (wire[1].code >= 400 /\ wire[1].code <= 499)

\* C7: with validation enabled, once a schema slot of the matched route has
\* failed (entry not an object, or messages returned) no modifier and no
\* handler runs for the request.
C7_ValidationBeforeHandler ==
  (\E k \in 1..Len(calls) :
     calls[k].ev = "validate" /\ calls[k].out \in {"invalid", "nonobject"})
  => \A j \in 1..Len(calls) : calls[j].ev \notin {"modifier", "handler"}

C7_Witness ==
  /\ pc = "done"
  /\ ~options.skip
  /\ route.modifiers = 1
  /\ \E k \in 1..Len(calls) :
       calls[k].ev = "validate" /\ calls[k].n = 2 /\ calls[k].out = "nonobject"

\* C8: with validation on and verbose messages off, a body that fails the
\* body schema is answered with a 4xx status and the generic
\* "invalid body" message.
C8_InvalidBodyIs4xx ==
  (/\ pc = "done"
   /\ ~options.messages
   /\ \E k \in 1..Len(calls) :
        /\ calls[k].ev = "validate"
        /\ calls[k].out = "invalid"
        /\ route.schemas[calls[k].n] = "body")
  => /\ wire[1].code >= 400
     /\ wire[1].code <= 499
     /\ wire[1].body.content =
       "Provided request cannot be processed due to invalid body"

\* C9: the written status is the last status a modification request
\* specified, and the envelope's own status when none specified one.
C9_StatusOnlyIfSpecified ==
  (pc = "done" /\ HasCall("lookup") /\ ~HasOverride) =>
    wire[1].code = IF LastStatus(calls) # NoCode THEN LastStatus(calls)
                   ELSE envelopeCode

\* C10: for a request that reached the route lookup, every header of the
\* accumulated modification requests is in the headers written, with the
\* modification's value, whatever variant writes them.
C10_OverridesWritten ==
  (heads # <<>> /\ HasCall("lookup")) =>
    \A key \in HeaderKeys :
      MergedHeaders(calls)[key] # Absent =>
        heads[1].headers[key] = MergedHeaders(calls)[key]

C10_Witness ==
  /\ pc = "done"
  /\ HasCall("lookup")
  /\ ~HasOverride
  /\ response.kind = "Plain"
  /\ response.headers["x-a"] = "env"
  /\ wire[1].headers["x-a"] = "mw"

\* a middleware ended the pipeline with a response of its own
ShortCircuited ==
  \E k \in 1..Len(calls) :
    calls[k].ev = "middleware" /\ calls[k].out = "response"
\* the last entry of `calls`
LastCall ==
  IF calls = <<>> THEN Call("none", 0, "none", NoVal) ELSE calls[Len(calls)]
\* the access-log records emitted so far
AccessLogs == { k \in 1..Len(logs) : logs[k].module = "requests" }

\* C11: when a middleware ends the pipeline with its own response, the
\* headers written carry every header of the modification requests that
\* earlier middleware returned, and the status written is the last status
\* such a request specified.
C11_OverridesOnShortCircuit ==
  (heads # <<>> /\ ShortCircuited) =>
    /\ \A key \in HeaderKeys :
         MergedHeaders(calls)[key] # Absent =>
           heads[1].headers[key] = MergedHeaders(calls)[key]
    /\ (LastStatus(calls) # NoCode /\ ~HasOverride) =>
         heads[1].code = LastStatus(calls)

C13_OneAccessLog ==
  pc = "done" =>
    /\ Cardinality(AccessLogs) = 1
    /\ \A k \in AccessLogs : logs[k].code = wire[1].code

\* C14: a response whose final status is in the configured code-only set
\* is written without a body, whatever the variant of the envelope.
C14_CodeOnlyNoBody ==
  (pc = "done" /\ wire[1].code \in options.codeOnly) =>
    wire[1].body = EmptyBody

\* C15: a response sent with a final status of 500 or more has produced an
\* error-level log record.
C15_ServerErrorsLogged ==
  (pc = "done" /\ wire[1].code >= 500) =>
    \E k \in 1..Len(logs) : logs[k].level = "error"

C17_CodeBounds ==
  built.variant \notin {"none", "File"} =>
    /\ built.code \in {99, 600} => built.value.kind = "ConstructionError"
    /\ (built.code \in {100, 599} /\ built.variant # "Redirect") =>
         /\ built.value.kind # "ConstructionError"
         /\ built.value.code = built.code
    /\ built.variant = "Redirect" =>
         /\ built.code \in {299, 400} =>
              built.value.kind = "ConstructionError"
         /\ built.code \in {300, 399} => built.value.code = built.code
         /\ built.code = NoCode => built.value.code = 302

\* the schema entries accumulated by a chain of schema-attachment calls
RECURSIVE Accumulated(_)
Accumulated(lineage) ==
  IF lineage = <<>> THEN <<>>
  ELSE Put(Accumulated(SubSeq(lineage, 1, Len(lineage) - 1)),
           lineage[Len(lineage)].key, lineage[Len(lineage)].schema)

\* the slots validated for the request, in the order they were validated
ValidatedSlots ==
  LET seen == SelectSeq(calls, LAMBDA c : c.ev = "validate")
  IN [j \in 1..Len(seen) |-> route.schemas[seen[j].n]]

\* C18: every Route object holds exactly the schemas attached along its
\* own chain (the base none), a verb registered through an object
\* captures exactly those, and the request is validated against the slots
\* of the object its route was registered through, in their order.
C18_DraftIsolation ==
  /\ \A i \in 1..Len(drafts) :
       drafts[i].schemas = Accumulated(drafts[i].lineage)
  /\ \A e \in 1..Len(table) :
       /\ table[e].entries = Accumulated(drafts[table[e].draft].lineage)
       /\ table[e].draft = 1 => table[e].entries = <<>>
       /\ table[e].path = "/items" =>
            route.schemas = [j \in 1..Len(table[e].entries) |->
                               table[e].entries[j].key]
  /\ \A j \in 1..Len(ValidatedSlots) : ValidatedSlots[j] = route.schemas[j]
  /\ (HasCall("handler") /\ ~options.skip) =>
       ValidatedSlots = route.schemas

C18_Witness ==
  /\ pc = "done"
  /\ HasCall("handler")
  /\ ~HasCall("validate")
  /\ ~options.skip
  /\ Len(drafts) = 3
  /\ drafts[2].lineage = <<[key |-> "body", schema |-> 2]>>
  /\ drafts[3].lineage = <<[key |-> "query", schema |-> 3]>>
  /\ Len(table) = 2
  /\ table[1].draft = 2
  /\ table[2].draft = 1
  /\ table[2].path = "/items"

\* C19: an addPlugin call for a name that is already registered, or for a
\* plugin whose construction fails, throws out of the call and leaves the
\* registry as it was; the registry never holds a name twice.
C19_PluginErrorsThrow ==
  /\ \A a, b \in 1..Len(plugins) : plugins[a] = plugins[b] => a = b
  /\ \A k \in 1..Len(registrations) :
       (registrations[k].registered \/ ~registrations[k].constructs) =>
         /\ registrations[k].outcome = Thrown
         /\ \A j \in 1..Len(registrations[k].before) :
              j <= Len(plugins) /\ plugins[j] = registrations[k].before[j]

\* the middleware invoked for the request, in the order of invocation
InvokedMiddleware ==
  LET seen == SelectSeq(calls, LAMBDA c : c.ev = "middleware")
  IN [j \in 1..Len(seen) |-> seen[j].n]

\* C20: the middleware a request invokes are the registered ones, in
\* registration order, all of them once the lookup is reached; a removed
\* middleware is not registered and is never invoked, and the others keep
\* their relative order.
C20_RegisteredMiddlewareRun ==
  /\ Len(InvokedMiddleware) <= Len(middlewares)
  /\ \A j \in 1..Len(InvokedMiddleware) :
       /\ j <= Len(middlewares) => InvokedMiddleware[j] = middlewares[j]
       /\ InvokedMiddleware[j] \notin removed
  /\ HasCall("lookup") => InvokedMiddleware = middlewares
  /\ \A a, b \in 1..Len(middlewares) :
       a < b => middlewares[a] < middlewares[b]
  /\ \A j \in 1..Len(middlewares) : middlewares[j] \notin removed

C20_Witness ==
  /\ pc = "done"
  /\ middlewares = <<1, 3>>
  /\ removed = {2}
  /\ InvokedMiddleware = <<1, 3>>


\* ------------------------------------------------------ modifier chain
\* the payloads of the first k modifier calls spread over the request
RECURSIVE MergedPayloads(_, _)
MergedPayloads(seq, k) ==
  IF k = 0 THEN ClientRequest
  ELSE Spread(MergedPayloads(seq, k - 1), seq[k].payload)

\* C21: the modifiers of a route run in registration order, one at a time;
\* each is handed the in-flight request (the client request with the
\* payloads of the modifiers before it merged in), and the handler gets the
\* merge of all payloads, a later modifier's key winning.
C21_ModifiersSeeInFlightRequest ==
  /\ \A k \in 1..Len(injections) :
       /\ injections[k].n = k
       /\ injections[k].received = MergedPayloads(injections, k - 1)
  /\ nextRequest = MergedPayloads(injections, Len(injections))
  /\ (HasCall("handler") => Len(injections) = route.modifiers)

\* ------------------------------------------------------ plugin life cycle
\* the hooks a request calls on a plugin
PerRequestHooks ==
  {"onBeforeRequestReceived", "onRequestReceived", "onBeforeResponseSent"}
HookCount(hook, n) ==
  Cardinality({ k \in 1..Len(hooks) : hooks[k] = Hook(hook, n) })

\* C22: onInitialize is called at most once on a plugin, and a plugin on
\* which a request calls a hook has had its onInitialize called, once.
C22_InitializedOnceBeforeRequests ==
  /\ \A j \in 1..Len(plugins) : HookCount("onInitialize", plugins[j]) <= 1
  /\ \A k \in 1..Len(calls) :
       calls[k].ev \in PerRequestHooks
         => HookCount("onInitialize", calls[k].n) = 1

\* C23: once $initialized is set, a step that changes the route registry
\* ($routes, a route's mounted children, the registered verbs) or the
\* plugin registry calls onUpdateCallback on every registered plugin.
C23_RegistryChangeNotifies ==
  [][(/\ core.initialized
      /\ \/ core'.routes # core.routes
         \/ core'.mounted # core.mounted
         \/ table' # table
         \/ plugins' # plugins)
     => \A j \in 1..Len(plugins') :
          \E k \in (Len(hooks) + 1)..Len(hooks') :
            hooks'[k] = Hook("onUpdateCallback", plugins'[j])]_vars

\* ------------------------------------------------------ response template
\* the handler returned v and $sendResponse has written the answer
Rendered(kinds) ==
  /\ pc = "done"
  /\ LastCall.ev = "handler"
  /\ LastCall.out = "returned"
  /\ rawResponse.kind \in kinds
  /\ ~codeOnly(defaultTemplate(response))

\* C24: with the default template a plain value or Plain envelope is
\* written as {error: null, content: v} with the envelope's code (200 for
\* a plain value) and a JSON content-type only when the envelope has no
\* header of its own; a buffer is written untouched.
C24_PlainPayloadTemplate ==
  Rendered({"Value", "Plain"}) =>
    /\ Len(wire) = 1
    /\ wire[1].code = (IF rawResponse.code = NoCode THEN 200
                       ELSE rawResponse.code)
    /\ IF rawResponse.content = "buf"
       THEN wire[1].body = Body("raw", Absent, "buf")
       ELSE /\ wire[1].body = Body("wrapped", "null", rawResponse.content)
            /\ wire[1].headers =
                 (IF NoKeys(rawResponse.headers) THEN JsonType
                  ELSE rawResponse.headers)

\* C25: with the default template an Exception is written as
\* {error: name, content: message} with its own code, and every header it
\* carries is written, next to a JSON content-type.
C25_ExceptionTemplate ==
  Rendered({"Exception"}) =>
    /\ Len(wire) = 1
    /\ wire[1].code = rawResponse.code
    /\ wire[1].body = Body("wrapped", rawResponse.name, rawResponse.message)
    /\ wire[1].headers["content-type"] = "application/json"
    /\ \A k \in HeaderKeys :
         rawResponse.headers[k] # Absent
           => wire[1].headers[k] = rawResponse.headers[k]

\* ------------------------------------------------------ files and streams
\* the handler returned a File envelope and fs.readFile failed on its path
FileUnread ==
  /\ rawResponse.kind = "File"
  /\ pc # "format"
  /\ response.content # "bytes"

\* C26: a File envelope whose path cannot be read is answered with the 404
\* NotFound exception: $formatResponse does not throw, and nothing of a
\* file response is written.
C26_UnreadableFileIsNotFound ==
  FileUnread =>
    /\ response.kind = "Exception"
    /\ response.name = "NotFound"
    /\ envelopeCode = 404
    /\ failure = "none"
    /\ \A k \in 1..Len(wire) :
         /\ wire[k].code = 404
         /\ wire[k].body \in {EmptyBody,
                              Body("wrapped", "NotFound", response.message)}

C26_Witness ==
  /\ FileUnread
  /\ pc = "done"
  /\ Len(wire) = 1
  /\ wire[1].body.t = "wrapped"

C28_StreamErrorTerminates ==
  piped.source = "errored" =>
    /\ Len(wire) = 1
    /\ (~piped.flushed => wire[1].code = 500)

\* ------------------------------------------------------ graceful shutdown
ExitTriggered == shutdown.phase \in {"exiting", "exited"}

\* C29: the cleanup routine runs at most once whatever signals and
\* uncaught errors arrive, and once a shutdown has begun the exit of the
\* process is eventually triggered, whether the onBeforeExit hooks settle
\* or not.
C29_CleanupOnceThenExit ==
  /\ [](shutdown.runs <= 1)
  /\ (shutdown.isShuttingDown ~> ExitTriggered)

\* C30: when the process exits after a shutdown signal, onBeforeExit has
\* been called on every plugin registered when the signal arrived, whether
\* the server was listening, created but not listening, or absent.
C30_BeforeExitOnEveryPlugin ==
  shutdown.phase = "exited" =>
    \A j \in 1..Len(shutdown.atSignal) :
      HookCount("onBeforeExit", shutdown.atSignal[j]) >= 1

\* ------------------------------------------------------ request containers
\* the cookies found in the given header values, read in order
RECURSIVE CookiesOf(_, _)
CookiesOf(cookies, values) ==
  IF values = <<>> THEN cookies
  ELSE CookiesOf(parseCookie(cookies, Head(values)), Tail(values))

\* C31: after any sequence of set, append and delete calls the cookie map
\* is the parse of the values stored under the cookie header, and it is
\* empty when no cookie header is stored; a value replaced by set leaves
\* no cookie behind.
C31_CookiesMatchHeader ==
  jar.cookies = CookiesOf(IncomingHeaders.cookies, jar.map["cookie"])

\* the values the calls of one view handed out so far
ReturnedOf(view) ==
  { incomingBody.returned[k].value :
      k \in { j \in 1..Len(incomingBody.returned) :
                incomingBody.returned[j].view = view } }

\* C32: over any sequence of json, text, blob and urlSearchParams calls
\* each view is computed at most once, every json call hands out the same
\* result (also when the body does not parse), and text gives the bytes
\* the container was built from.
C32_ViewsMemoized ==
  /\ \A v \in Views : incomingBody.computed[v] <= 1
  /\ Cardinality(ReturnedOf("json")) <= 1
  /\ ReturnedOf("text") \subseteq {toString(incomingBody.buffer)}

\* ---------------------------------------------------- processRequestContent
\* the message was turned into a request
Processed == processed.strategy \notin {"pending", "null"}

\* C33: the body strategy is chosen by first match: no parsing (empty body,
\* no files) for a method that carries no body or a message without
\* Content-Type; the buffer for text/*, *json, application/xml,
\* application/javascript and urlencoded forms; formidable for
\* multipart/form-data; and for anything else the binary handler, which
\* gives exactly one file with empty key and originalName and an empty body.
C33_BodyClassification ==
  Processed =>
    LET type == incoming.contentType
    IN IF incoming.method \notin SUPPORTED_METHODS \/ type.header = Absent
         THEN /\ processed.strategy = "none"
              /\ processed.body = "empty"
              /\ processed.files = <<>>
       ELSE IF \/ type.startsWithText
               \/ type.endsWithJson
               \/ type.type \in {"application/xml", "application/javascript"}
         THEN processed.strategy = "bufferHandler"
       ELSE IF type.type = "multipart/form-data"
         THEN processed.strategy = "formDataHandler"
       ELSE IF type.type = "application/x-www-form-urlencoded"
         THEN processed.strategy \in {"bufferHandler",
                                      "urlencodedFormHandler"}
       ELSE /\ processed.strategy = "binaryHandler"
            /\ processed.body = "empty"
            /\ Len(processed.files) = 1
            /\ processed.files[1].key = ""
            /\ processed.files[1].originalName = ""

\* C34: when proxy trust is not enabled, the host of the request is the raw
\* Host header and its client address is the address of the socket,
\* whatever the Forwarded, X-Forwarded-Host, X-Forwarded-For, X-Real-IP
\* and CF-Connecting-IP headers say.
C34_UntrustedProxyHeadersIgnored ==
  (Processed /\ ~incoming.trustProxy) =>
    /\ processed.host = incoming.host
    /\ processed.remoteAddress =
         getClientIpInfo([incoming EXCEPT !.proxy = NoProxyHeaders])

\* -------------------------------------------------------- requests in flight
\* what request r is answered with when it is the only request
Alone(r) ==
  LET modn == lanes[r].modifiedOptions
  IN [code |-> IF modn.code # NoCode THEN modn.code ELSE Pong.code,
      headers |-> Assign(Pong.headers, modn.headers)]

\* C35: however two requests are interleaved at their await points, each
\* is answered with the status and headers it would get alone: neither the
\* overrides of another request nor what Send wrote into that request's
\* envelope show up in it.
C35_RequestsIsolated ==
  \A r \in Lanes :
    lanes[r].pc = "done" => lanes[r].written = <<Alone(r)>>

\* ------------------------------------------------------ order of the steps
\* the stage of $incomingMessageHandlerImpl a recorded call belongs to
Stage(ev) ==
  CASE ev = "onBeforeRequestReceived" -> 1
    [] ev = "onRequestReceived" -> 3
    [] ev = "middleware" -> 4
    [] ev = "lookup" -> 5
    [] ev = "validate" -> 6
    [] ev = "modifier" -> 7
    [] ev = "handler" -> 8
    [] ev = "onBeforeResponseSent" -> 10
CallsOf(ev) == Cardinality({ k \in 1..Len(calls) : calls[k].ev = ev })
Reached(from, to) ==
  \E k \in 1..Len(calls) : Stage(calls[k].ev) \in from..to

\* C36: the steps of one request come in the order pre-receipt hooks,
\* normalization, onRequestReceived hooks, middleware, lookup, validation,
\* modifiers, handler, formatting, pre-send hooks, first write; every
\* plugin has had its hook before the next stage starts, and nothing runs
\* once the head has been written.
C36_StagesInOrder ==
  /\ [](/\ \A i, j \in 1..Len(calls) :
             i < j => Stage(calls[i].ev) <= Stage(calls[j].ev)
        /\ (Reached(3, 10) \/ heads # <<>>) =>
             CallsOf("onBeforeRequestReceived") = Len(plugins)
        /\ Reached(4, 8) => CallsOf("onRequestReceived") = Len(plugins)
        /\ Reached(5, 8) => CallsOf("middleware") >= Len(middlewares)
        /\ Reached(6, 8) => HasCall("lookup")
        /\ HasCall("handler") => CallsOf("modifier") = route.modifiers
        /\ pc = "presend" => heads = <<>>
        /\ heads # <<>> =>
             \/ HasOverride
             \/ CallsOf("onBeforeResponseSent") = Len(plugins))
  /\ [][heads # <<>> => calls' = calls]_vars

\* a request that went through every stage and was written
C36_Witness ==
  /\ pc = "done"
  /\ wire # <<>>
  /\ \A ev \in {"onBeforeRequestReceived", "onRequestReceived", "middleware",
                "lookup", "validate", "modifier", "handler",
                "onBeforeResponseSent"} : HasCall(ev)

\* -------------------------------------------------------------- router tree
\* the descriptors the mount and verb calls made so far put below router r
RECURSIVE Registered(_)
Registered(r) ==
  routers[r].registered \cup
  UNION { { RequestDescriptor(entry.key, mounts[k].path \o entry.path) :
              entry \in Registered(mounts[k].child) } :
          k \in { j \in 1..Len(mounts) : mounts[j].parent = r } }

\* C37: after any sequence of mount and verb registration calls,
\* exportRequests of a router has exactly one descriptor for every request
\* registered on it or on a router mounted below it at any depth, its path
\* behind the mount prefixes on the way down; also when two routers are
\* mounted at the same prefix.
C37_ExportFollowsMounts ==
  \A r \in 1..Len(routers) : exportRequests(routers, r) = Registered(r)

\* ------------------------------------------------------ failing middleware
\* a global middleware threw, or the promise it returned was rejected
MiddlewareThrew ==
  \E k \in 1..Len(calls) :
    calls[k].ev = "middleware" /\ calls[k].out = Thrown

\* C38: when a global middleware throws, the promise of the request
\* handler is not rejected (nothing reaches the process as an unhandled
\* rejection) and the request ends answered with an error response.
C38_MiddlewareFailureContained ==
  MiddlewareThrew =>
    /\ failure = "none"
    /\ pc # "rejected"
    /\ Finished => (wire # <<>> /\ wire[Len(wire)].code >= 400)

\* ------------------------------------------- registry changes in flight
\* C40: the middleware applied to a request are those registered when its
\* middleware phase started: one added or removed while the request is
\* suspended in that phase is neither run for it in addition nor skipped.
C40_MiddlewareSnapshot ==
  /\ \A j \in 1..Len(InvokedMiddleware) :
       j <= Len(snapshot) /\ InvokedMiddleware[j] = snapshot[j]
  /\ HasCall("lookup") => InvokedMiddleware = snapshot

\* ------------------------------------------------------ status on the wire
\* C39: every status handed to res.writeHead is within 100..599, whatever
\* the handler returns or throws and whatever overrides the middleware
\* supply.
C39_StatusInRange ==
  \A k \in 1..Len(heads) : heads[k].code \in 100..599

====
